---- MODULE Spec2Model ----
(***************************************************************************)
(* The suggestion backend:                                                 *)
(*   backend/services/quota_store.py   QuotaStore (in-memory, UTC-midnight *)
(*                                     windows, hourly reclamation task)   *)
(*   backend/middleware/quota.py       QuotaMiddleware.dispatch (the gate) *)
(*   backend/services/moderation.py    ModerationService                   *)
(*   backend/routers/generate.py       generate_content (the pipeline)     *)
(*                                                                         *)
(* Scheduling is asyncio's: one task runs at a time and gives up the event *)
(* loop only where it really suspends.  The bodies under QuotaStore._lock  *)
(* contain no await and the lock is therefore always free when a task      *)
(* asks for it, so one store call is one atomic step.  The wall clock is   *)
(* not part of the event loop: it may advance between any two steps.       *)
(***************************************************************************)
EXTENDS Integers, Sequences, FiniteSets, TLC

-----------------------------------------------------------------------------
(* Bounds of the model *)

\* clock ticks in one UTC day
DayLen == 2
\* last clock tick the model reaches
MaxTime == 3
\* largest count a direct increment_usage call is issued against
MaxCount == 3
\* number of request slots of the gate that can be in flight together
NumReq == 2
\* the configured per-day ceiling, QuotaMiddleware(free_tier_limit=...);
\* main.py configures 5
free_tier_limit == 2

-----------------------------------------------------------------------------
(* Values *)

\* Python's None, where a string is expected
None == "<None>"

\* variant: only None counts as no value, the empty string is a token
IsNone(x) == x = None

\* `not x` for an Optional[str]
Falsy(x) == x = None \/ x = ""

\* the device tokens the model's callers present
DeviceTokens == {"deviceAA", "deviceBB"}

\* arguments of direct store calls: the tokens, the empty string and None
StoreArgs == DeviceTokens \cup {"", None}

\* limits passed to can_use by direct callers
Limits == 0..MaxCount

VARIABLES
    now,            \* datetime.now(timezone.utc), in ticks
    quotas,         \* QuotaStore._quotas: token -> [count, reset_time]
    cleanup_task,   \* QuotaStore._cleanup_task: "sleeping" | "cancelled"
    last,           \* the last direct store call and what it returned
    returned,       \* per token: values returned by increment_usage in the
                    \* entry's current run (since its count last was 0)
    req,            \* the gate's request slots
    running,        \* the request that holds the event loop, or 0
    mod,            \* a moderate_content call of the ModerationService
    gen,            \* a generate_content call: the request's pipeline
    blocklist,      \* ModerationService.BLOCKED_TERMS: the class attribute
                    \* and the instance attributes that shadow it
    shadow,         \* a second _quotas, given the same calls and no
                    \* reclamation pass
    lock,           \* QuotaStore._lock and the tasks that use it, one step
                    \* per statement group between suspension points
    mgr,            \* a QuotaManager.check_quota call and what it returned
    denied          \* per token: the reset_at of the record when the gate
                    \* last denied it, and the slot of the first request
                    \* made at or after that time

vars ==
    <<now, quotas, cleanup_task, last, returned, req, running, mod, gen,
      blocklist, shadow, lock, mgr, denied>>

\* no denial on record for a device
NoDenial == [reset_at |-> 0 - 1, first |-> 0]

\* the request slots
Reqs == 1..NumReq

\* every finished response has been handed to the server
Delivered == \A r \in Reqs : req[r].pc # "done"

-----------------------------------------------------------------------------
(* QuotaStore: pure parts *)

\* variant: midnight of the current day (the added day is missing)
_get_midnight_today(t) == (t \div DayLen) * DayLen

\* QuotaStore._get_next_midnight_utc, for the clock reading t
_get_next_midnight_utc(t) == ((t \div DayLen) + 1) * DayLen

\* the {count, reset_time} dictionary of a reset or new entry
FreshEntry(t) == [count |-> 0, reset_time |-> _get_next_midnight_utc(t)]

\* variant: the assignment writes the entry under every key of the store
SetEntryEveryKey(qs, d, entry) ==
    [x \in (DOMAIN qs) \cup {d} |-> entry]

\* self._quotas[device_token] = entry
SetEntry(qs, d, entry) ==
    [x \in (DOMAIN qs) \cup {d} |-> IF x = d THEN entry ELSE qs[x]]

\* variant: the window ends one tick late (> for >=)
ExpiredLate(current_time, reset_time) == current_time > reset_time

\* the expiry test  current_time >= quota_data['reset_time']
Expired(current_time, reset_time) == current_time >= reset_time

\* variant: get_usage creates the entry it does not find
get_usage_creates(qs, device_token, current_time) ==
    IF Falsy(device_token) THEN [ret |-> 0, quotas |-> qs]
    ELSE IF device_token \notin DOMAIN qs
         THEN [ret |-> 0,
               quotas |-> SetEntry(qs, device_token, FreshEntry(current_time))]
    ELSE IF Expired(current_time, qs[device_token].reset_time)
         THEN [ret |-> 0,
               quotas |-> SetEntry(qs, device_token, FreshEntry(current_time))]
         ELSE [ret |-> qs[device_token].count, quotas |-> qs]

\* QuotaStore.get_usage: the value returned and the store afterwards
get_usage(qs, device_token, current_time) ==
    IF Falsy(device_token) THEN [ret |-> 0, quotas |-> qs]
    ELSE IF device_token \notin DOMAIN qs THEN [ret |-> 0, quotas |-> qs]
    ELSE IF Expired(current_time, qs[device_token].reset_time)
         THEN [ret |-> 0,
               quotas |-> SetEntry(qs, device_token, FreshEntry(current_time))]
         ELSE [ret |-> qs[device_token].count, quotas |-> qs]

\* the statement  quota_data['count'] += 1  of increment_usage
AddOne(count) == count + 1

\* variant: increment_usage returns the count it read, not the one it wrote
increment_usage_stale(qs, device_token, current_time) ==
    IF Falsy(device_token) THEN [ret |-> 0, quotas |-> qs]
    ELSE LET created == IF device_token \notin DOMAIN qs
                        THEN SetEntry(qs, device_token, FreshEntry(current_time))
                        ELSE qs
             quota_data == created[device_token]
             window == IF Expired(current_time, quota_data.reset_time)
                       THEN FreshEntry(current_time)
                       ELSE quota_data
             counted == [window EXCEPT !.count = AddOne(window.count)]
         IN  [ret |-> window.count,
              quotas |-> SetEntry(created, device_token, counted)]

\* QuotaStore.increment_usage: the value returned and the store afterwards
increment_usage(qs, device_token, current_time) ==
    IF Falsy(device_token) THEN [ret |-> 0, quotas |-> qs]
    ELSE LET created == IF device_token \notin DOMAIN qs
                        THEN SetEntry(qs, device_token, FreshEntry(current_time))
                        ELSE qs
             quota_data == created[device_token]
             window == IF Expired(current_time, quota_data.reset_time)
                       THEN FreshEntry(current_time)
                       ELSE quota_data
             counted == [window EXCEPT !.count = AddOne(window.count)]
         IN  [ret |-> counted.count,
              quotas |-> SetEntry(created, device_token, counted)]

\* variant: <= for <
AtMostLimit(current_usage, limit) == current_usage <= limit

\* the comparison of can_use
UnderLimit(current_usage, limit) == current_usage < limit

\* QuotaStore.can_use: calls get_usage (with its reset) and compares
can_use(qs, device_token, limit, current_time) ==
    LET u == get_usage(qs, device_token, current_time)
    IN  [ret |-> UnderLimit(u.ret, limit), quotas |-> u.quotas]

\* variant: a token without an entry is told 24 hours from now
get_reset_time_rolling(qs, device_token, current_time) ==
    IF Falsy(device_token) THEN -1
    ELSE IF device_token \notin DOMAIN qs
         THEN current_time + DayLen
         ELSE qs[device_token].reset_time

\* QuotaStore.get_reset_time: None for a falsy token, else a timestamp
get_reset_time(qs, device_token, current_time) ==
    IF Falsy(device_token) THEN -1
    ELSE IF device_token \notin DOMAIN qs
         THEN _get_next_midnight_utc(current_time)
         ELSE qs[device_token].reset_time

\* variant: reset_quota writes the entry whether or not there was one
reset_quota_creates(qs, device_token, current_time) ==
    IF Falsy(device_token) THEN qs
    ELSE SetEntry(qs, device_token, FreshEntry(current_time))

\* QuotaStore.reset_quota: the store afterwards
reset_quota(qs, device_token, current_time) ==
    IF Falsy(device_token) THEN qs
    ELSE IF device_token \in DOMAIN qs
         THEN SetEntry(qs, device_token, FreshEntry(current_time))
         ELSE qs

\* the loop of get_stats over the entries of tokens: total_usage after it
RECURSIVE total_usage(_, _, _)
total_usage(qs, tokens, current_time) ==
    IF tokens = {} THEN 0
    ELSE LET d == CHOOSE x \in tokens : TRUE
             rest == total_usage(qs, tokens \ {d}, current_time)
         IN  IF current_time < qs[d].reset_time
             THEN rest + qs[d].count
             ELSE rest

\* variant: the counts of expired entries are added as well
get_stats_all(qs, current_time) ==
    LET active == {d \in DOMAIN qs : current_time < qs[d].reset_time}
    IN  [total_devices |-> Cardinality(DOMAIN qs),
         active_quotas |-> Cardinality(active),
         total_usage_today |-> total_usage(qs, DOMAIN qs, 0 - 1)]

\* QuotaStore.get_stats: the numbers of the dictionary returned
get_stats(qs, current_time) ==
    LET active == {d \in DOMAIN qs : current_time < qs[d].reset_time}
    IN  [total_devices |-> Cardinality(DOMAIN qs),
         active_quotas |-> Cardinality(active),
         total_usage_today |-> total_usage(qs, DOMAIN qs, current_time)]

\* variant: a pass deletes every entry, expired or not
all_tokens(qs, current_time) == DOMAIN qs

\* the tokens one pass of _cleanup_expired_quotas deletes
expired_tokens(qs, current_time) ==
    {token \in DOMAIN qs : Expired(current_time, qs[token].reset_time)}

\* variant: the comparison of the pass is the wrong way round
cleanup_pass_inverted(qs, current_time) ==
    [token \in expired_tokens(qs, current_time) |-> qs[token]]

\* one pass of _cleanup_expired_quotas: the store afterwards
cleanup_pass(qs, current_time) ==
    [token \in (DOMAIN qs) \ expired_tokens(qs, current_time) |-> qs[token]]

-----------------------------------------------------------------------------
(* Record of the last direct call, and of the returned increments *)

\* no direct call yet
NoCall ==
    [op |-> "none", device |-> None, limit |-> 0, ret |-> 0, ok |-> FALSE,
     n |-> 0, fresh_reset |-> -1]

\* what get_reset_time(d) answered for a token without an entry, kept over
\* the increment_usage(d) that is the very next call; -1 otherwise
FreshReset(op, d, r) ==
    IF op = "get_reset_time" /\ ~Falsy(d) /\ d \notin DOMAIN quotas THEN r
    ELSE IF op = "increment_usage" /\ last.op = "get_reset_time"
            /\ last.device = d
         THEN last.fresh_reset
         ELSE -1

\* the record of a direct call: method, arguments, the value returned (ret
\* for a number, ok for a boolean) and a bit that flips with every call
Call(op, d, l, r, b) ==
    [op |-> op, device |-> d, limit |-> l, ret |-> r, ok |-> b,
     n |-> 1 - last.n, fresh_reset |-> FreshReset(op, d, r)]

\* usage as a caller sees it: 0 for no entry or an expired one
Usage(qs, d, t) ==
    IF d \in DOMAIN qs /\ t < qs[d].reset_time THEN qs[d].count ELSE 0

\* a run of increments of d ends when its entry is deleted or back at 0
ClearReturned(rs, qs2) ==
    [d \in DeviceTokens |->
        IF d \notin DOMAIN qs2 \/ qs2[d].count = 0 THEN <<>> ELSE rs[d]]

\* the run after increment_usage(d) returned ret: a new run if the entry
\* started at 0 (absent, expired or reset), else one more value
AddReturned(rs, qs, d, t, ret) ==
    IF d \notin DeviceTokens THEN rs
    ELSE [rs EXCEPT ![d] = IF Usage(qs, d, t) = 0 THEN <<ret>>
                           ELSE Append(@, ret)]

-----------------------------------------------------------------------------
(* The wall clock and the store's own task *)

\* wall-clock time passes; it does so whatever the event loop is running
Tick ==
    /\ Delivered
    /\ now < MaxTime
    /\ now' = now + 1
    /\ UNCHANGED <<quotas, cleanup_task, last, returned, req, running, mod, gen,
                 blocklist, shadow, lock, mgr,
                 denied>>

\* _cleanup_expired_quotas wakes from its sleep and makes one pass
CleanupPass ==
    /\ running = 0
    /\ Delivered
    /\ cleanup_task = "sleeping"
    /\ quotas' = cleanup_pass(quotas, now)
    /\ returned' = ClearReturned(returned, quotas')
    /\ UNCHANGED <<now, cleanup_task, last, req, running, mod, gen,
                 blocklist, shadow, lock, mgr,
                 denied>>

\* QuotaStore.shutdown: the reclamation task is cancelled in its sleep
Shutdown ==
    /\ running = 0
    /\ cleanup_task = "sleeping"
    /\ cleanup_task' = "cancelled"
    /\ UNCHANGED <<now, quotas, last, returned, req, running, mod, gen,
                 blocklist, shadow, lock, mgr,
                 denied>>

-----------------------------------------------------------------------------
(* Direct calls of the store's methods (tests, QuotaManager, admin code) *)

GetUsage(d) ==
    /\ running = 0
    /\ LET r == get_usage(quotas, d, now)
       IN  /\ quotas' = r.quotas
           /\ returned' = ClearReturned(returned, r.quotas)
           /\ last' = Call("get_usage", d, 0, r.ret, FALSE)
    /\ UNCHANGED <<now, cleanup_task, req, running, mod, gen,
                 blocklist, shadow, lock, mgr,
                 denied>>

IncrementUsage(d) ==
    /\ running = 0
    /\ Usage(quotas, d, now) < MaxCount
    /\ LET r == increment_usage(quotas, d, now)
       IN  /\ quotas' = r.quotas
           /\ returned' = ClearReturned(AddReturned(returned, quotas, d, now, r.ret),
                                        r.quotas)
           /\ last' = Call("increment_usage", d, 0, r.ret, FALSE)
    /\ UNCHANGED <<now, cleanup_task, req, running, mod, gen,
                 blocklist, shadow, lock, mgr,
                 denied>>

CanUse(d, limit) ==
    /\ running = 0
    /\ LET r == can_use(quotas, d, limit, now)
       IN  /\ quotas' = r.quotas
           /\ returned' = ClearReturned(returned, r.quotas)
           /\ last' = Call("can_use", d, limit, 0, r.ret)
    /\ UNCHANGED <<now, cleanup_task, req, running, mod, gen,
                 blocklist, shadow, lock, mgr,
                 denied>>

GetResetTime(d) ==
    /\ running = 0
    /\ last' = Call("get_reset_time", d, 0, get_reset_time(quotas, d, now), FALSE)
    /\ UNCHANGED <<now, quotas, cleanup_task, returned, req, running, mod, gen,
                 blocklist, shadow, lock, mgr,
                 denied>>

ResetQuota(d) ==
    /\ running = 0
    /\ quotas' = reset_quota(quotas, d, now)
    /\ returned' = ClearReturned(returned, quotas')
    /\ last' = Call("reset_quota", d, 0, 0, FALSE)
    /\ UNCHANGED <<now, cleanup_task, req, running, mod, gen,
                 blocklist, shadow, lock, mgr,
                 denied>>

-----------------------------------------------------------------------------
(* QuotaMiddleware: pure parts *)

\* QuotaMiddleware.protected_paths
protected_paths == {"/v1/generate"}

\* str.startswith
StartsWith(str, prefix) ==
    /\ Len(str) >= Len(prefix)
    /\ SubSeq(str, 1, Len(prefix)) = prefix

\* any(request.url.path.startswith(path) for path in self.protected_paths)
IsProtected(path) == \E p \in protected_paths : StartsWith(path, p)

\* the shortest token _extract_device_token accepts
MinTokenLen == 8

\* variant: the minimum is taken one too low
TooShortOffByOne(token) == Len(token) < MinTokenLen - 1

\* the test on the token's length in _extract_device_token
TooShort(token) == Len(token) < MinTokenLen

\* QuotaMiddleware._extract_device_token
_extract_device_token(auth_header) ==
    IF Falsy(auth_header) THEN None
    ELSE IF ~StartsWith(auth_header, "Bearer ") THEN None
    ELSE LET token == SubSeq(auth_header, 8, Len(auth_header))
         IN  IF token = "" \/ TooShort(token) THEN None ELSE token

\* variant: the upper end of the range is missing
IsAtLeast200(status_code) == 200 <= status_code

\* the test  200 <= response.status_code < 300  of dispatch
Is2xx(status_code) == 200 <= status_code /\ status_code < 300

\* variant: the difference as it is, without the floor at 0
NoFloor(a) == a

\* max(0, a)
Max0(a) == IF a > 0 THEN a ELSE 0

\* variant: the difference without the floor at 0
_seconds_until_reset_signed(reset_time, t) == reset_time - t

\* QuotaMiddleware._seconds_until_reset, for the clock reading t
_seconds_until_reset(reset_time, t) == Max0(reset_time - t)

\* the Authorization headers requests carry: none, a token of 8
\* characters, one of 7, and a scheme in the wrong case
AuthHeaders ==
    {None, "Bearer deviceAA", "Bearer deviceBB", "Bearer device7",
     "bearer deviceAA"}

\* the requests that arrive: the endpoint with every header, the health
\* check with and without a device token
Requests ==
    {<<"/v1/generate", auth>> : auth \in AuthHeaders}
        \cup {<<"/health", None>>, <<"/health", "Bearer deviceAA">>}

\* what the application below the gate answers on a path: the outcomes of
\* generate_content on the endpoint, no route, or the health check
Outcomes(path) ==
    IF path = "/v1/generate"
    THEN {[status |-> 200, code |-> ""],
          [status |-> 400, code |-> "CONTENT_UNSAFE"],
          [status |-> 422, code |-> "VALIDATION"],
          [status |-> 503, code |-> "GENERATION_FAILED"],
          [status |-> 503, code |-> "SERVICE_UNAVAILABLE"],
          [status |-> 500, code |-> "INTERNAL_ERROR"]}
    ELSE IF path = "/health" THEN {[status |-> 200, code |-> ""]}
    ELSE {[status |-> 404, code |-> "NOT_FOUND"]}

\* a request slot nobody uses
IdleReq ==
    [pc |-> "idle", path |-> "", auth |-> None, device_token |-> None,
     can_proceed |-> "unset", reset_time |-> -1, current_usage |-> -1,
     status |-> 0, code |-> "", calls |-> 0, consumed |-> 0,
     touched |-> FALSE, raised |-> "no",
     limit_hdr |-> -1, remaining_hdr |-> -1, reset_hdr |-> -1,
     retry_after |-> -1]

\* what a store call of a request added to the usage its device sees
Consumed(qs, qs2, d, t) == Usage(qs2, d, t) - Usage(qs, d, t)

-----------------------------------------------------------------------------
(* QuotaMiddleware.dispatch, one step per store call or suspension *)

\* a request arrives: path test and token extraction (lines 24-34); an
\* unmetered request goes straight to call_next and suspends there
DispatchStep(r, path, auth) ==
    /\ running = 0
    /\ Delivered
    /\ req[r].pc = "idle"
    /\ LET device_token == _extract_device_token(auth)
           metered == IsProtected(path) /\ ~Falsy(device_token)
       IN  /\ req' = [req EXCEPT ![r] =
                        [IdleReq EXCEPT !.path = path, !.auth = auth,
                            !.device_token = IF metered THEN device_token ELSE None,
                            !.pc = IF metered THEN "can_use" ELSE "bypass",
                            !.calls = IF metered THEN 0 ELSE 1]]
           /\ running' = IF metered THEN r ELSE 0
    /\ UNCHANGED <<now, quotas, cleanup_task, last, returned, mod, gen,
                 blocklist, shadow, lock, mgr>>

Dispatch(r, path, auth) ==
    /\ DispatchStep(r, path, auth)
    /\ UNCHANGED denied

\* the same arrival, noting whether the request is the first its device
\* makes at or after the reset_at it was last denied with
DenialDispatch(r, path, auth) ==
    /\ DispatchStep(r, path, auth)
    /\ LET d == req'[r].device_token
       IN  denied' = IF /\ d \in DeviceTokens
                        /\ denied[d].reset_at # 0 - 1
                        /\ denied[d].first = 0
                        /\ now >= denied[d].reset_at
                     THEN [denied EXCEPT ![d].first = r]
                     ELSE denied

\* variant: the denied branch does not raise and falls through to call_next
AfterCanUseFallThrough(can_proceed) == "call_next"

\* the branch of line 40: a denied request goes on to build the 429, an
\* allowed one to call_next
AfterCanUse(can_proceed) ==
    IF can_proceed THEN "call_next" ELSE "deny_reset_time"

\* variant: call_next is run to its end without giving up the event loop
LoopKept(r, pc) == r

\* who has the event loop when request r got to pc: await call_next
\* suspends the request, the store calls before it do not
LoopAfter(r, pc) == IF pc = "call_next" THEN 0 ELSE r

\* line 38: can_use; when allowed the request enters call_next (line 69)
GateCanUseStep(r) ==
    /\ running = r
    /\ req[r].pc = "can_use"
    /\ LET d == req[r].device_token
           c == can_use(quotas, d, free_tier_limit, now)
       IN  /\ quotas' = c.quotas
           /\ returned' = ClearReturned(returned, c.quotas)
           /\ req' = [req EXCEPT ![r] =
                        [@ EXCEPT !.touched = TRUE,
                            !.can_proceed = IF c.ret THEN "true" ELSE "false",
                            !.consumed = @ + Consumed(quotas, c.quotas, d, now),
                            !.calls = IF AfterCanUse(c.ret) = "call_next"
                                      THEN @ + 1 ELSE @,
                            !.pc = AfterCanUse(c.ret)]]
           /\ running' = LoopAfter(r, AfterCanUse(c.ret))
    /\ UNCHANGED <<now, cleanup_task, last, mod, gen,
                 blocklist, shadow, lock, mgr>>

GateCanUse(r) ==
    /\ GateCanUseStep(r)
    /\ UNCHANGED denied

\* the same call, noting a denial with the reset_at the record has then
DenialGateCanUse(r) ==
    /\ GateCanUseStep(r)
    /\ LET d == req[r].device_token
       IN  denied' = IF req'[r].can_proceed = "false"
                     THEN [denied EXCEPT ![d] =
                             [reset_at |-> quotas'[d].reset_time, first |-> 0]]
                     ELSE IF denied[d].first = r
                     THEN [denied EXCEPT ![d] = NoDenial]
                     ELSE denied

\* line 42: get_reset_time on the denied branch
GateDenyResetTime(r) ==
    /\ running = r
    /\ req[r].pc = "deny_reset_time"
    /\ req' = [req EXCEPT ![r] =
                 [@ EXCEPT !.reset_time = get_reset_time(quotas, req[r].device_token, now),
                           !.pc = "deny_usage"]]
    /\ UNCHANGED <<now, quotas, cleanup_task, last, returned, running, mod, gen,
                 blocklist, shadow, lock, mgr,
                 denied>>

\* lines 43-66: get_usage, then the 429 is raised with its headers
GateDenyUsage(r) ==
    /\ running = r
    /\ req[r].pc = "deny_usage"
    /\ LET d == req[r].device_token
           u == get_usage(quotas, d, now)
       IN  /\ quotas' = u.quotas
           /\ returned' = ClearReturned(returned, u.quotas)
           /\ req' = [req EXCEPT ![r] =
                        [@ EXCEPT !.current_usage = u.ret,
                            !.consumed = @ + Consumed(quotas, u.quotas, d, now),
                            !.status = 429, !.code = "QUOTA_EXCEEDED",
                            !.limit_hdr = free_tier_limit,
                            !.remaining_hdr = 0,
                            !.reset_hdr = req[r].reset_time,
                            !.retry_after = _seconds_until_reset(req[r].reset_time, now),
                            !.pc = "done"]]
    /\ running' = 0
    /\ UNCHANGED <<now, cleanup_task, last, mod, gen,
                 blocklist, shadow, lock, mgr,
                 denied>>

\* the response leaves call_next (line 69) or the bypass (lines 25, 34);
\* only the call of line 69 goes on to look at the status (line 72)
DownstreamReturns(r, out) ==
    LET counts == req[r].pc = "call_next" /\ Is2xx(out.status)
    IN  /\ req' = [req EXCEPT ![r] =
                     [@ EXCEPT !.status = out.status, !.code = out.code,
                         !.limit_hdr = -1, !.remaining_hdr = -1,
                         !.reset_hdr = -1,
                         !.pc = IF counts THEN "increment" ELSE "done"]]
        /\ running' = IF counts THEN r ELSE 0

\* call_next returns a response (lines 25, 34, 69, 94), a new object
\* without the gate's headers
Downstream(r) ==
    /\ running = 0
    /\ Delivered
    /\ req[r].pc \in {"call_next", "bypass", "failopen"}
    /\ \E out \in Outcomes(req[r].path) : DownstreamReturns(r, out)
    /\ UNCHANGED <<now, quotas, cleanup_task, last, returned, mod, gen,
                 blocklist, shadow, lock, mgr,
                 denied>>

\* lines 73-78: increment_usage and the limit and remaining headers
GateIncrement(r) ==
    /\ running = r
    /\ req[r].pc = "increment"
    /\ LET d == req[r].device_token
           i == increment_usage(quotas, d, now)
       IN  /\ quotas' = i.quotas
           /\ returned' = ClearReturned(AddReturned(returned, quotas, d, now, i.ret),
                                        i.quotas)
           /\ req' = [req EXCEPT ![r] =
                        [@ EXCEPT !.consumed = @ + Consumed(quotas, i.quotas, d, now),
                            !.limit_hdr = free_tier_limit,
                            !.remaining_hdr = Max0(free_tier_limit - i.ret),
                            !.pc = "ok_reset_time"]]
    /\ UNCHANGED <<now, cleanup_task, last, running, mod, gen,
                 blocklist, shadow, lock, mgr,
                 denied>>

\* lines 80-86: get_reset_time, the reset header, the response is returned
GateOkResetTime(r) ==
    /\ running = r
    /\ req[r].pc = "ok_reset_time"
    /\ req' = [req EXCEPT ![r] =
                 [@ EXCEPT !.reset_time = get_reset_time(quotas, req[r].device_token, now),
                           !.reset_hdr = get_reset_time(quotas, req[r].device_token, now),
                           !.pc = "done"]]
    /\ running' = 0
    /\ UNCHANGED <<now, quotas, cleanup_task, last, returned, mod, gen,
                 blocklist, shadow, lock, mgr,
                 denied>>

\* the response is handed to the server as soon as dispatch returns; the
\* slot then serves the next request
Respond(r) ==
    /\ running = 0
    /\ req[r].pc = "done"
    /\ req' = [req EXCEPT ![r] = IdleReq]
    /\ UNCHANGED <<now, quotas, cleanup_task, last, returned, running, mod, gen,
                 blocklist, shadow, lock, mgr,
                 denied>>

\* QuotaManager.reset_device_quota (admin operation)
AdminReset(d) ==
    /\ running = 0
    /\ Delivered
    /\ quotas' = reset_quota(quotas, d, now)
    /\ returned' = ClearReturned(returned, quotas')
    /\ UNCHANGED <<now, cleanup_task, last, req, running, mod, gen,
                 blocklist, shadow, lock, mgr,
                 denied>>

-----------------------------------------------------------------------------
(* Faults the gate's  except Exception  (lines 91-94) is written for *)

\* a quota-store call of the gate raises before it changes anything; the
\* handler calls call_next
StoreRaises(r) ==
    /\ running = r
    /\ req[r].pc \in {"can_use", "deny_reset_time", "deny_usage",
                      "increment", "ok_reset_time"}
    /\ req' = [req EXCEPT ![r] =
                 [@ EXCEPT !.raised = "store", !.touched = TRUE,
                           !.calls = @ + 1, !.pc = "failopen"]]
    /\ running' = 0
    /\ UNCHANGED <<now, quotas, cleanup_task, last, returned, mod, gen,
                 blocklist, shadow, lock, mgr,
                 denied>>

\* call_next itself raises: inside the try (line 69) the handler calls
\* call_next again, outside it the exception leaves dispatch (a 500)
DownstreamRaises(r) ==
    /\ running = 0
    /\ Delivered
    /\ req[r].pc \in {"call_next", "bypass", "failopen"}
    /\ req' = [req EXCEPT ![r] =
                 IF req[r].pc = "call_next"
                 THEN [@ EXCEPT !.raised = "downstream", !.calls = @ + 1,
                                !.pc = "failopen"]
                 ELSE [@ EXCEPT !.status = 500, !.code = "UNHANDLED",
                                !.limit_hdr = -1, !.remaining_hdr = -1,
                                !.reset_hdr = -1, !.pc = "done"]]
    /\ UNCHANGED <<now, quotas, cleanup_task, last, returned, running, mod, gen,
                 blocklist, shadow, lock, mgr,
                 denied>>

-----------------------------------------------------------------------------
(* Python strings, as far as the services use them *)

\* the characters str.strip() removes
Whitespace == {" ", "\t", "\n", "\r"}

\* s[i-1]
Char(s, i) == SubSeq(s, i, i)

RECURSIVE lstrip(_)
lstrip(s) ==
    IF Len(s) > 0 /\ Char(s, 1) \in Whitespace
    THEN lstrip(SubSeq(s, 2, Len(s)))
    ELSE s

RECURSIVE rstrip(_)
rstrip(s) ==
    IF Len(s) > 0 /\ Char(s, Len(s)) \in Whitespace
    THEN rstrip(SubSeq(s, 1, Len(s) - 1))
    ELSE s

\* variant: only the left end is trimmed
strip_left_only(s) == lstrip(s)

\* str.strip()
strip(s) == rstrip(lstrip(s))

\* str.split(sep) for a separator of one character
RECURSIVE split(_, _)
split(s, sep) ==
    IF \E i \in 1..Len(s) : Char(s, i) = sep
    THEN LET i == CHOOSE i \in 1..Len(s) :
                      /\ Char(s, i) = sep
                      /\ \A j \in 1..(i - 1) : Char(s, j) # sep
         IN  <<SubSeq(s, 1, i - 1)>> \o split(SubSeq(s, i + 1, Len(s)), sep)
    ELSE <<s>>

ascii_uppercase == "ABCDEFGHIJKLMNOPQRSTUVWXYZ"
ascii_lowercase == "abcdefghijklmnopqrstuvwxyz"

\* the lower-case letter of every upper-case letter
lower_of ==
    [c \in {Char(ascii_uppercase, i) : i \in 1..Len(ascii_uppercase)} |->
        Char(ascii_lowercase,
             CHOOSE i \in 1..Len(ascii_uppercase) : Char(ascii_uppercase, i) = c)]

\* str.lower() on the letters the model's texts are written in
RECURSIVE lower(_)
lower(s) ==
    IF s = ""
    THEN ""
    ELSE LET c == Char(s, 1)
             l == IF c \in DOMAIN lower_of THEN lower_of[c] ELSE c
         IN  l \o lower(SubSeq(s, 2, Len(s)))

\* t in s
Contains(s, t) ==
    \E i \in 1..(Len(s) - Len(t) + 1) : SubSeq(s, i, i + Len(t) - 1) = t

-----------------------------------------------------------------------------
(* ModerationService: pure parts.  Scores are in hundredths. *)

HARASSMENT_THRESHOLD == 90
SEXUAL_THRESHOLD == 90
VIOLENCE_THRESHOLD == 95

\* the categories _openai_moderation looks at, in the order it appends them
CheckedCategories == <<"harassment", "sexual", "violence">>

Threshold(category) ==
    CASE category = "harassment" -> HARASSMENT_THRESHOLD
      [] category = "sexual" -> SEXUAL_THRESHOLD
      [] category = "violence" -> VIOLENCE_THRESHOLD

BLOCKED_TERMS ==
    <<"underage", "minor", "child", "kid", "teen", "school",
      "rape", "assault", "abuse", "violence", "harm",
      "suicide", "self-harm", "cutting", "drugs", "cocaine">>

\* the scores a provider answer carries: at and just above each threshold
Scores == {90, 91, 95, 96}

\* response.results[0] of the provider: its own flag and its scores
ProviderResults ==
    [flagged : BOOLEAN,
     category_scores : [{"harassment", "sexual", "violence"} -> Scores]]

\* no provider answer
NoAnswer ==
    [flagged |-> FALSE,
     category_scores |-> [c \in {"harassment", "sexual", "violence"} |-> 0]]

\* what the awaited provider call does: it raises or it answers
ProviderOutcomes ==
    {[raised |-> TRUE, result |-> NoAnswer]}
        \cup {[raised |-> FALSE, result |-> a] : a \in ProviderResults}

\* ModerationService.client: None when no API key was configured
Clients == {None, "AsyncOpenAI"}

\* variant: a score equal to the threshold is flagged too
ReachesThreshold(score, threshold) == score >= threshold

\* the comparisons  scores.<category> > self.<CATEGORY>_THRESHOLD
Exceeds(score, threshold) == score > threshold

\* _openai_moderation once the provider has answered with result
Classified(result) ==
    LET flagged_categories ==
            SelectSeq(CheckedCategories,
                      LAMBDA c : Exceeds(result.category_scores[c], Threshold(c)))
    IN  [exc |-> FALSE,
         is_safe |-> Len(flagged_categories) = 0,
         detail |-> [flagged |-> result.flagged,
                     flagged_categories |-> flagged_categories,
                     scores |-> result.category_scores]]

\* _openai_moderation when the provider call raised
ApiError ==
    [exc |-> FALSE, is_safe |-> TRUE,
     detail |-> [error |-> "moderation_api_error"]]

\* _openai_moderation without a client
ClientMissing ==
    [exc |-> FALSE, is_safe |-> TRUE,
     detail |-> [error |-> "moderation_client_not_initialized"]]

\* PHONE_PATTERN.search, ADDRESS_PATTERN.search and EMAIL_PATTERN.search on
\* the texts of the model: the texts each pattern matches
PHONE_PATTERN(text) == text \in {"Call 555-123-4567"}
ADDRESS_PATTERN(text) == text \in {"Meet at 12 Oak St"}
EMAIL_PATTERN(text) == text \in {"a@b.co at School"}

_regex_filters(text) ==
    LET violations ==
            (IF PHONE_PATTERN(text) THEN <<"phone_number">> ELSE << >>)
            \o (IF ADDRESS_PATTERN(text) THEN <<"address">> ELSE << >>)
            \o (IF EMAIL_PATTERN(text) THEN <<"email">> ELSE << >>)
    IN  [exc |-> FALSE,
         is_safe |-> Len(violations) = 0,
         detail |-> [violations |-> violations,
                     patterns_checked |-> <<"phone", "address", "email">>]]

_blocklist_check(text) ==
    LET text_lower == lower(text)
        found_terms ==
            SelectSeq(BLOCKED_TERMS, LAMBDA term : Contains(text_lower, term))
    IN  [exc |-> FALSE,
         is_safe |-> Len(found_terms) = 0,
         detail |-> [blocked_terms_found |-> found_terms,
                     total_blocked_terms |-> Len(BLOCKED_TERMS)]]

\* a sub-check that ended with an exception, as asyncio.gather returns it
Raised(msg) == [exc |-> TRUE, msg |-> msg]

\* the three sub-checks, by their key in the details
Checks == {"openai", "regex", "blocklist"}

\* variant: a sub-check that raised counts as unsafe
FoldAsUnsafe(result) ==
    IF result.exc
    THEN [is_safe |-> FALSE, detail |-> [error |-> result.msg]]
    ELSE [is_safe |-> result.is_safe, detail |-> result.detail]

\* lines 73-78: results[i] if not isinstance(results[i], Exception)
\* else (True, {"error": str(results[i])})
Fold(result) ==
    IF result.exc
    THEN [is_safe |-> TRUE, detail |-> [error |-> result.msg]]
    ELSE [is_safe |-> result.is_safe, detail |-> result.detail]

\* variant: only the empty string is recognised
EmptyOnly(text) == Falsy(text)

\* the test  not text or not text.strip()
Blank(text) == Falsy(text) \/ Falsy(strip(text))

\* line 63
EmptyContent == [is_safe |-> TRUE, details |-> [reason |-> "empty_content"]]

\* lines 73-92, for the gathered results
Combined(results) ==
    LET openai_result == Fold(results["openai"])
        regex_result == Fold(results["regex"])
        blocklist_result == Fold(results["blocklist"])
        is_safe == /\ openai_result.is_safe
                   /\ regex_result.is_safe
                   /\ blocklist_result.is_safe
    IN  [is_safe |-> is_safe,
         details |-> [openai |-> openai_result.detail,
                      regex |-> regex_result.detail,
                      blocklist |-> blocklist_result.detail,
                      overall_safe |-> is_safe]]

\* moderate_content(text) of a service with this client, when the provider
\* call, if one is made, ends as outcome
moderate_content(text, client, outcome) ==
    IF Blank(text)
    THEN EmptyContent
    ELSE Combined([openai |-> IF Falsy(client) THEN ClientMissing
                              ELSE IF outcome.raised THEN ApiError
                              ELSE Classified(outcome.result),
                   regex |-> _regex_filters(text),
                   blocklist |-> _blocklist_check(text)])

-----------------------------------------------------------------------------
(* ModerationService.moderate_content, step by step.  asyncio.gather runs  *)
(* the three coroutines in the order given; only _openai_moderation        *)
(* suspends, in the provider call.                                         *)

\* the texts direct callers pass
ModTexts ==
    {"", "   ", "\n\t", "Hello there", "Call 555-123-4567", "I'm UNDERAGE",
     "a@b.co at School"}

\* nothing returned yet
NoReturn == [is_safe |-> TRUE, details |-> [reason |-> "<none>"]]

\* the service between calls
ModIdle(client) ==
    [client |-> client, pc |-> "idle", text |-> "", invoked |-> {},
     provider |-> "none", answer |-> NoAnswer, results |-> << >>,
     ret |-> NoReturn]

\* lines 62-63 and the start of the gather of lines 66-71
ModerateContent(text) ==
    /\ mod.pc \in {"idle", "returned"}
    /\ gen.pc = "idle"
    /\ mod' = IF Blank(text)
              THEN [ModIdle(mod.client) EXCEPT
                        !.text = text, !.pc = "returned", !.ret = EmptyContent]
              ELSE [ModIdle(mod.client) EXCEPT !.text = text, !.pc = "openai"]
    /\ UNCHANGED <<now, quotas, cleanup_task, last, returned, req, running, gen,
                 blocklist, shadow, lock, mgr,
                 denied>>

\* _openai_moderation up to its await (lines 96-100)
OpenAIModeration ==
    /\ mod.pc = "openai"
    /\ mod' = IF Falsy(mod.client)
              THEN [mod EXCEPT !.invoked = @ \cup {"openai"},
                               !.results = SetEntry(@, "openai", ClientMissing),
                               !.pc = "regex"]
              ELSE [mod EXCEPT !.invoked = @ \cup {"openai"},
                               !.provider = "awaiting",
                               !.pc = "regex"]
    /\ UNCHANGED <<now, quotas, cleanup_task, last, returned, req, running, gen,
                 blocklist, shadow, lock, mgr,
                 denied>>

\* _regex_filters, which has no await
RegexFilters ==
    /\ mod.pc = "regex"
    /\ mod' = [mod EXCEPT !.invoked = @ \cup {"regex"},
                          !.results = SetEntry(@, "regex", _regex_filters(mod.text)),
                          !.pc = "blocklist"]
    /\ UNCHANGED <<now, quotas, cleanup_task, last, returned, req, running, gen,
                 blocklist, shadow, lock, mgr,
                 denied>>

\* _blocklist_check, which has no await
BlocklistCheck ==
    /\ mod.pc = "blocklist"
    /\ mod' = [mod EXCEPT !.invoked = @ \cup {"blocklist"},
                          !.results = SetEntry(@, "blocklist",
                                               _blocklist_check(mod.text)),
                          !.pc = IF mod.provider = "awaiting"
                                 THEN "await" ELSE "gathered"]
    /\ UNCHANGED <<now, quotas, cleanup_task, last, returned, req, running, gen,
                 blocklist, shadow, lock, mgr,
                 denied>>

\* the case return_exceptions=True (line 70) is written for: the pattern
\* or the blocklist sub-check ends with an exception
SubCheckRaises ==
    /\ mod.pc \in {"regex", "blocklist"}
    /\ mod' = [mod EXCEPT !.invoked = @ \cup {mod.pc},
                          !.results = SetEntry(@, mod.pc, Raised("error")),
                          !.pc = IF mod.pc = "regex" THEN "blocklist"
                                 ELSE IF mod.provider = "awaiting"
                                 THEN "await" ELSE "gathered"]
    /\ UNCHANGED <<now, quotas, cleanup_task, last, returned, req, running, gen,
                 blocklist, shadow, lock, mgr,
                 denied>>

\* the provider answers: lines 101-121
ProviderAnswers(result) ==
    /\ mod.pc = "await"
    /\ mod' = [mod EXCEPT !.provider = "answered",
                          !.answer = result,
                          !.results = SetEntry(@, "openai", Classified(result)),
                          !.pc = "gathered"]
    /\ UNCHANGED <<now, quotas, cleanup_task, last, returned, req, running, gen,
                 blocklist, shadow, lock, mgr,
                 denied>>

\* the provider call raises: lines 123-125
ProviderRaises ==
    /\ mod.pc = "await"
    /\ mod' = [mod EXCEPT !.provider = "raised",
                          !.results = SetEntry(@, "openai", ApiError),
                          !.pc = "gathered"]
    /\ UNCHANGED <<now, quotas, cleanup_task, last, returned, req, running, gen,
                 blocklist, shadow, lock, mgr,
                 denied>>

\* the gather is complete: lines 73-92
ModerationReturns ==
    /\ mod.pc = "gathered"
    /\ mod' = [mod EXCEPT !.ret = Combined(mod.results), !.pc = "returned"]
    /\ UNCHANGED <<now, quotas, cleanup_task, last, returned, req, running, gen,
                 blocklist, shadow, lock, mgr,
                 denied>>

-----------------------------------------------------------------------------
(* generate_content: pure parts *)

\* most completions one provider answer carries
MaxCompletions == 2

Modes == {"pickup", "reply"}
Styles == {"safe", "spicy", "funny"}

\* PromptTemplates.get_expected_count
get_expected_count(mode) == IF mode = "pickup" THEN 3 ELSE 2

\* the fallback lines 131 and 133 append
padding_fallback(mode) ==
    IF mode = "pickup"
    THEN "I'd love to know more about you!"
    ELSE "That's interesting! Tell me more."

\* the fallback lines 149 and 151 append
post_fallback(mode) ==
    IF mode = "pickup"
    THEN "I'd love to get to know you better!"
    ELSE "That sounds great!"

\* variant: the lines are not trimmed
lines_of_untrimmed(text) ==
    IF ~Falsy(text) /\ ~Falsy(strip(text))
    THEN SelectSeq(split(strip(text), "\n"), LAMBDA line : ~Falsy(strip(line)))
    ELSE << >>

\* lines 120-122: the lines one completion contributes
lines_of(text) ==
    IF ~Falsy(text) /\ ~Falsy(strip(text))
    THEN LET kept == SelectSeq(split(strip(text), "\n"),
                               LAMBDA line : ~Falsy(strip(line)))
         IN  [i \in 1..Len(kept) |-> strip(kept[i])]
    ELSE << >>

\* lines 118-123: choices.extend(lines) over the completions
RECURSIVE cleaned(_)
cleaned(generated_texts) ==
    IF generated_texts = << >>
    THEN << >>
    ELSE lines_of(Head(generated_texts)) \o cleaned(Tail(generated_texts))

\* lines 126-133: while len(choices) < expected_count: choices.append(...)
RECURSIVE padded(_, _, _)
padded(choices, mode, expected_count) ==
    IF Len(choices) < expected_count
    THEN padded(Append(choices, padding_fallback(mode)), mode, expected_count)
    ELSE choices

\* variant: the list is not cut
whole_list(choices, expected_count) == choices

\* line 136: choices[:expected_count]
truncated(choices, expected_count) ==
    SubSeq(choices, 1, IF Len(choices) < expected_count
                       THEN Len(choices) ELSE expected_count)

\* lines 118-136
candidate_choices(generated_texts, mode) ==
    truncated(padded(cleaned(generated_texts), mode, get_expected_count(mode)),
              get_expected_count(mode))

\* variant: a flagged entry is kept
moderated_kept(choice, is_safe, mode) == choice

\* lines 143-151: what is appended to moderated_choices for one choice
moderated(choice, is_safe, mode) ==
    IF is_safe THEN choice ELSE post_fallback(mode)

\* variant: only the provider's categories are listed
flagged_categories_of_provider(moderation_details) ==
    IF "flagged_categories" \in DOMAIN moderation_details.openai
    THEN moderation_details.openai.flagged_categories ELSE << >>

\* lines 54-65: the flagged category list of the 400 detail
flagged_categories_of(moderation_details) ==
    (IF "flagged_categories" \in DOMAIN moderation_details.openai
     THEN moderation_details.openai.flagged_categories ELSE << >>)
    \o (IF "violations" \in DOMAIN moderation_details.regex
        THEN moderation_details.regex.violations ELSE << >>)
    \o (IF "blocked_terms_found" \in DOMAIN moderation_details.blocklist
        THEN moderation_details.blocklist.blocked_terms_found ELSE << >>)

\* variant: an unsafe input goes on to generation
AfterInputVerdictFallThrough(is_safe) == "generate"

\* lines 49 and 75: an unsafe input ends the call
AfterInputVerdict(is_safe) == IF is_safe THEN "generate" ELSE "responded"

\* GenerateRequest: context has min_length 1 and max_length 1500; mode and
\* style are enumerations (a body outside them is a 422 as well)
Valid(body) == Len(body.context) >= 1 /\ Len(body.context) <= 1500

\* contexts clients send: empty, blank, harmless, with a phone number,
\* with an email address and a blocked term
Contexts ==
    {"", "   ", "I love hiking", "Call 555-123-4567", "a@b.co at School"}

\* request bodies
Bodies == [mode : Modes, style : Styles, context : Contexts]

\* completions the provider returns: empty, one line, two lines with
\* blank lines (one ended CRLF) and padding around them, four lines of
\* which one is blocked
CompletionTexts == {"", "Hi", " Hi \r\n\n Yo\t", "No harm\nHey\nFun\nWow"}

\* sequences over S of length at most n
RECURSIVE SeqsUpTo(_, _)
SeqsUpTo(S, n) ==
    IF n = 0
    THEN {<< >>}
    ELSE LET shorter == SeqsUpTo(S, n - 1)
         IN  shorter \cup {Append(s, x) : s \in shorter, x \in S}

\* the lists generate_multiple returns
Completions == SeqsUpTo(CompletionTexts, MaxCompletions)

\* how the classification provider answers during a request: it raises, it
\* scores everything at its threshold, or it scores harassment above it
PipelineProviderOutcomes ==
    {[raised |-> TRUE, result |-> NoAnswer],
     [raised |-> FALSE,
      result |-> [flagged |-> FALSE,
                  category_scores |->
                      [c \in {"harassment", "sexual", "violence"} |->
                          Threshold(c)]]],
     [raised |-> FALSE,
      result |-> [flagged |-> TRUE,
                  category_scores |->
                      [c \in {"harassment", "sexual", "violence"} |->
                          IF c = "harassment" THEN Threshold(c) + 1
                          ELSE Threshold(c)]]]}

\* no detail
NoDetails == [moderation_results |-> NoReturn.details, flagged_categories |-> << >>]

\* no generate_content call in progress; client is LLMService.client
GenIdle(client) ==
    [client |-> client, pc |-> "idle", slot |-> 0,
     mode |-> "", style |-> "", context |-> "",
     input_verdict |-> "unset", generate_calls |-> 0, provider_calls |-> 0,
     llm_raised |-> FALSE,
     generated_texts |-> << >>, candidates |-> << >>,
     moderated_choices |-> << >>, verdicts |-> << >>,
     status |-> 0, code |-> "", details |-> NoDetails,
     choices |-> << >>, resp_style |-> "", resp_mode |-> ""]

\* the module-level singleton of llm.py: LLMService.__init__ catches the
\* ValueError of a missing key itself, so the  except ValueError  around the
\* constructor never runs and the name is always bound to an object
llm_service == "LLMService"

\* the 503 of lines 163-172
GenerationFailed(g) ==
    [g EXCEPT !.llm_raised = TRUE, !.status = 503,
              !.code = "GENERATION_FAILED", !.pc = "responded"]

-----------------------------------------------------------------------------
(* generate_content below the gate, for the request of one slot *)

\* the request reaches the route: body validation, then lines 35-47 up to
\* the await of moderate_content
GenerateContent(r, body) ==
    /\ running = 0
    /\ Delivered
    /\ req[r].pc \in {"call_next", "bypass", "failopen"}
    /\ req[r].path = "/v1/generate"
    /\ gen.pc = "idle"
    /\ gen' = IF Valid(body)
              THEN [GenIdle(gen.client) EXCEPT
                        !.slot = r, !.mode = body.mode, !.style = body.style,
                        !.context = body.context, !.pc = "moderate_input"]
              ELSE [GenIdle(gen.client) EXCEPT
                        !.slot = r, !.status = 422, !.code = "VALIDATION",
                        !.pc = "responded"]
    /\ UNCHANGED <<now, quotas, cleanup_task, last, returned, req, running, mod,
                 blocklist, shadow, lock, mgr,
                 denied>>

\* moderate_content(request.context) returns: lines 47-75
InputModerated(outcome) ==
    /\ gen.pc = "moderate_input"
    /\ LET m == moderate_content(gen.context, mod.client, outcome)
       IN  gen' = IF AfterInputVerdict(m.is_safe) = "generate"
                  THEN [gen EXCEPT
                            !.input_verdict = IF m.is_safe THEN "safe" ELSE "unsafe",
                            !.pc = "generate"]
                  ELSE [gen EXCEPT
                            !.input_verdict = "unsafe",
                            !.status = 400, !.code = "CONTENT_UNSAFE",
                            !.details =
                                [moderation_results |-> m.details,
                                 flagged_categories |->
                                     flagged_categories_of(m.details)],
                            !.pc = "responded"]
    /\ UNCHANGED <<now, quotas, cleanup_task, last, returned, req, running, mod,
                 blocklist, shadow, lock, mgr,
                 denied>>

\* lines 78-115 with an LLMService that has no client: the test of line 93
\* passes, generate_multiple raises RuntimeError before any provider call
LLMNotInitialized ==
    /\ gen.pc = "generate"
    /\ ~Falsy(llm_service)
    /\ Falsy(gen.client)
    /\ gen' = GenerationFailed([gen EXCEPT !.generate_calls = @ + 1])
    /\ UNCHANGED <<now, quotas, cleanup_task, last, returned, req, running, mod,
                 blocklist, shadow, lock, mgr,
                 denied>>

\* lines 78-115: generate_multiple awaits chat.completions.create
LLMCall ==
    /\ gen.pc = "generate"
    /\ ~Falsy(llm_service)
    /\ ~Falsy(gen.client)
    /\ gen' = [gen EXCEPT !.generate_calls = @ + 1, !.provider_calls = @ + 1,
                          !.pc = "llm"]
    /\ UNCHANGED <<now, quotas, cleanup_task, last, returned, req, running, mod,
                 blocklist, shadow, lock, mgr,
                 denied>>

\* the provider call raises: RuntimeError out of generate_multiple
LLMRaises ==
    /\ gen.pc = "llm"
    /\ gen' = GenerationFailed(gen)
    /\ UNCHANGED <<now, quotas, cleanup_task, last, returned, req, running, mod,
                 blocklist, shadow, lock, mgr,
                 denied>>

\* generate_multiple returns: lines 117-136 up to the first await of the
\* re-moderation loop
LLMReturns(generated_texts) ==
    /\ gen.pc = "llm"
    /\ gen' = [gen EXCEPT
                   !.generated_texts = generated_texts,
                   !.candidates = candidate_choices(generated_texts, gen.mode),
                   !.pc = "remoderate"]
    /\ UNCHANGED <<now, quotas, cleanup_task, last, returned, req, running, mod,
                 blocklist, shadow, lock, mgr,
                 denied>>

\* moderate_content(choice) returns for the next choice: lines 141-151,
\* and after the last one lines 153-161
ChoiceModerated(outcome) ==
    /\ gen.pc = "remoderate"
    /\ LET choice == gen.candidates[Len(gen.moderated_choices) + 1]
           m == moderate_content(choice, mod.client, outcome)
           moderated_choices ==
               Append(gen.moderated_choices, moderated(choice, m.is_safe, gen.mode))
           verdicts == Append(gen.verdicts, m.is_safe)
       IN  gen' = IF Len(moderated_choices) < Len(gen.candidates)
                  THEN [gen EXCEPT !.moderated_choices = moderated_choices,
                                   !.verdicts = verdicts]
                  ELSE [gen EXCEPT !.moderated_choices = moderated_choices,
                                   !.verdicts = verdicts,
                                   !.choices = moderated_choices,
                                   !.resp_style = gen.style,
                                   !.resp_mode = gen.mode,
                                   !.status = 200,
                                   !.pc = "responded"]
    /\ UNCHANGED <<now, quotas, cleanup_task, last, returned, req, running, mod,
                 blocklist, shadow, lock, mgr,
                 denied>>

\* the route's response, or the HTTPException rendered below the gate,
\* comes back to dispatch
PipelineReturns(r) ==
    /\ running = 0
    /\ gen.pc = "responded"
    /\ gen.slot = r
    /\ DownstreamReturns(r, [status |-> gen.status, code |-> gen.code])
    /\ gen' = GenIdle(gen.client)
    /\ UNCHANGED <<now, quotas, cleanup_task, last, returned, mod,
                 blocklist, shadow, lock, mgr,
                 denied>>

-----------------------------------------------------------------------------
(* The store next to a store that is never reclaimed: every call is made   *)
(* on both, at the same clock reading; only _quotas sees the passes of     *)
(* _cleanup_expired_quotas                                                 *)

MirroredGetUsage(d) ==
    /\ running = 0
    /\ LET r == get_usage(quotas, d, now)
       IN  /\ quotas' = r.quotas
           /\ returned' = ClearReturned(returned, r.quotas)
           /\ last' = Call("get_usage", d, 0, r.ret, FALSE)
    /\ shadow' = get_usage(shadow, d, now).quotas
    /\ UNCHANGED <<now, cleanup_task, req, running, mod, gen, blocklist, lock, mgr,
                 denied>>

MirroredIncrementUsage(d) ==
    /\ running = 0
    /\ Usage(quotas, d, now) < MaxCount
    /\ LET r == increment_usage(quotas, d, now)
       IN  /\ quotas' = r.quotas
           /\ returned' = ClearReturned(AddReturned(returned, quotas, d, now, r.ret),
                                        r.quotas)
           /\ last' = Call("increment_usage", d, 0, r.ret, FALSE)
    /\ shadow' = increment_usage(shadow, d, now).quotas
    /\ UNCHANGED <<now, cleanup_task, req, running, mod, gen, blocklist, lock, mgr,
                 denied>>

MirroredCanUse(d, limit) ==
    /\ running = 0
    /\ LET r == can_use(quotas, d, limit, now)
       IN  /\ quotas' = r.quotas
           /\ returned' = ClearReturned(returned, r.quotas)
           /\ last' = Call("can_use", d, limit, 0, r.ret)
    /\ shadow' = can_use(shadow, d, limit, now).quotas
    /\ UNCHANGED <<now, cleanup_task, req, running, mod, gen, blocklist, lock, mgr,
                 denied>>

-----------------------------------------------------------------------------
(* QuotaManager.check_quota: three store calls one after the other.  None   *)
(* of them suspends, so no other task runs in between; the clock does.     *)

\* the task that runs check_quota, as a holder of the event loop
ManagerTask == 0 - 1

\* no statistics asked for
NoStats ==
    [total_devices |-> -1, active_quotas |-> -1, total_usage_today |-> -1]

\* no call of the manager yet
ManagerIdle ==
    [pc |-> "idle", device |-> None, can_use |-> FALSE, usage |-> -1,
     limit |-> -1, remaining |-> -1, reset_time |-> -1, stats |-> NoStats]

\* lines 137-147: the dictionary for a falsy token; else get_usage
ManagerCheckQuota(d) ==
    /\ running = 0
    /\ mgr.pc \in {"idle", "returned", "stats"}
    /\ IF Falsy(d)
       THEN /\ mgr' = [ManagerIdle EXCEPT
                          !.pc = "returned", !.device = d, !.can_use = TRUE,
                          !.usage = 0, !.limit = free_tier_limit,
                          !.remaining = free_tier_limit]
            /\ UNCHANGED <<quotas, returned, running,
                 denied>>
       ELSE LET u == get_usage(quotas, d, now)
            IN  /\ quotas' = u.quotas
                /\ returned' = ClearReturned(returned, u.quotas)
                /\ mgr' = [ManagerIdle EXCEPT !.pc = "can_use", !.device = d,
                                              !.usage = u.ret]
                /\ running' = ManagerTask
    /\ UNCHANGED <<now, cleanup_task, last, req, mod, gen, blocklist, shadow,
                   lock,
                 denied>>

\* line 148: can_use
ManagerCanUse ==
    /\ running = ManagerTask
    /\ mgr.pc = "can_use"
    /\ LET c == can_use(quotas, mgr.device, free_tier_limit, now)
       IN  /\ quotas' = c.quotas
           /\ returned' = ClearReturned(returned, c.quotas)
           /\ mgr' = [mgr EXCEPT !.pc = "get_reset_time", !.can_use = c.ret]
    /\ UNCHANGED <<now, cleanup_task, last, req, running, mod, gen, blocklist,
                   shadow, lock,
                 denied>>

\* lines 149-157: get_reset_time and the dictionary returned
ManagerGetResetTime ==
    /\ running = ManagerTask
    /\ mgr.pc = "get_reset_time"
    /\ mgr' = [mgr EXCEPT
                  !.pc = "returned",
                  !.limit = free_tier_limit,
                  !.remaining = Max0(free_tier_limit - mgr.usage),
                  !.reset_time = get_reset_time(quotas, mgr.device, now)]
    /\ running' = 0
    /\ UNCHANGED <<now, quotas, cleanup_task, last, returned, req, mod, gen,
                   blocklist, shadow, lock,
                 denied>>

\* QuotaManager.get_store_stats: get_stats of the store, one body under
\* the lock
ManagerGetStoreStats ==
    /\ running = 0
    /\ mgr.pc \in {"idle", "returned", "stats"}
    /\ mgr' = [ManagerIdle EXCEPT !.pc = "stats",
                                  !.stats = get_stats(quotas, now)]
    /\ UNCHANGED <<now, quotas, cleanup_task, last, returned, req, running,
                   mod, gen, blocklist, shadow, lock,
                 denied>>

-----------------------------------------------------------------------------
(* QuotaStore._lock and the coroutines that take it *)

\* the coroutines that take the lock: the reclamation task and one caller
\* of a store method
Tasks == {"cleanup", "caller"}

\* the methods whose body is under  async with self._lock
LockedOps ==
    {"get_usage", "increment_usage", "get_reset_time", "reset_quota",
     "get_stats"}

\* the device id of the caller's calls
LockDevices == {"deviceAA"}

\* variant: every body ends with an awaited write of its log line
LockedBodyAwaitingLog(op) ==
    CASE op = "cleanup" -> <<"now", "scan", "del", "log", "await">>
      [] op = "get_usage" -> <<"now", "test", "test", "assign", "return", "await">>
      [] op = "increment_usage" ->
            <<"now", "test", "assign", "test", "assign", "assign", "log",
              "return", "await">>
      [] op = "get_reset_time" -> <<"test", "return", "await">>
      [] op = "reset_quota" -> <<"test", "assign", "log", "await">>
      [] op = "get_stats" -> <<"now", "scan", "return", "await">>

\* the statements between acquiring and releasing the lock, by kind: clock
\* reading, test, assignment, deletion, scan of the dictionary, logger call
\* (synchronous), return; "await" would be a suspension point
LockedBody(op) ==
    CASE op = "cleanup" -> <<"now", "scan", "del", "log">>
      [] op = "get_usage" -> <<"now", "test", "test", "assign", "return">>
      [] op = "increment_usage" ->
            <<"now", "test", "assign", "test", "assign", "assign", "log",
              "return">>
      [] op = "get_reset_time" -> <<"test", "return">>
      [] op = "reset_quota" -> <<"test", "assign", "log">>
      [] op = "get_stats" -> <<"now", "scan", "return">>

\* the body of op gives up the event loop before the lock is released
SuspendsUnderLock(op) ==
    \E k \in 1..Len(LockedBody(op)) : LockedBody(op)[k] = "await"

\* variant: the handler of CancelledError goes round the loop again
on_cancelled_continue == "sleep"

\* except asyncio.CancelledError: break  - the coroutine returns
on_cancelled == "done"

\* after __init__: the lock is free, the task is created and has not run,
\* nobody is in a call, shutdown has not been called
LockInit ==
    [locked |-> FALSE, owner |-> "", loop |-> "",
     pc |-> [t \in Tasks |-> IF t = "cleanup" THEN "created" ELSE "idle"],
     op |-> "", device |-> None, cancel |-> FALSE, shutdown |-> "idle"]

\* what task t is executing
OpOf(t) == IF t = "cleanup" THEN "cleanup" ELSE lock.op

\* _quotas after the body of task t
LockedBodyEffect(t) ==
    LET op == OpOf(t)
        d == lock.device
    IN  CASE op = "cleanup" -> cleanup_pass(quotas, now)
          [] op = "get_usage" -> get_usage(quotas, d, now).quotas
          [] op = "increment_usage" -> increment_usage(quotas, d, now).quotas
          [] op = "get_reset_time" -> quotas
          [] op = "reset_quota" -> reset_quota(quotas, d, now)
          [] op = "get_stats" -> quotas

\* a caller enters a store method with a device id: it runs up to
\* async with self._lock
CallStarts(op, d) ==
    /\ lock.loop = ""
    /\ lock.pc["caller"] = "idle"
    /\ op = "increment_usage" => Usage(quotas, d, now) < MaxCount
    /\ lock' = [lock EXCEPT !.pc["caller"] = "acquire", !.loop = "caller",
                            !.op = op, !.device = d]
    /\ UNCHANGED <<now, quotas, cleanup_task, last, returned, req, running,
                   mod, gen, blocklist, shadow, mgr,
                 denied>>

\* Lock.acquire: taken at once when free, else the task waits and the
\* event loop runs something else
Acquires(t) ==
    /\ lock.loop = t
    /\ lock.pc[t] = "acquire"
    /\ lock' = IF ~lock.locked
               THEN [lock EXCEPT !.locked = TRUE, !.owner = t,
                                 !.pc[t] = "body"]
               ELSE [lock EXCEPT !.pc[t] = "wait_lock", !.loop = ""]
    /\ UNCHANGED <<now, quotas, cleanup_task, last, returned, req, running,
                   mod, gen, blocklist, shadow, mgr,
                 denied>>

\* the statements under the lock, up to the release or to the first
\* suspension point among them
Body(t) ==
    /\ lock.loop = t
    /\ lock.pc[t] = "body"
    /\ quotas' = LockedBodyEffect(t)
    /\ lock' = IF SuspendsUnderLock(OpOf(t))
               THEN [lock EXCEPT !.pc[t] = "suspended", !.loop = ""]
               ELSE [lock EXCEPT !.pc[t] = "release"]
    /\ UNCHANGED <<now, cleanup_task, last, returned, req, running, mod, gen,
                   blocklist, shadow, mgr,
                 denied>>

\* __aexit__ of the lock; the caller's method returns, the task goes round
\* its loop into asyncio.sleep
Releases(t) ==
    /\ lock.loop = t
    /\ lock.pc[t] = "release"
    /\ lock' = [lock EXCEPT !.locked = FALSE, !.owner = "", !.loop = "",
                            !.pc[t] = IF t = "cleanup" THEN "sleep" ELSE "idle"]
    /\ UNCHANGED <<now, quotas, cleanup_task, last, returned, req, running,
                   mod, gen, blocklist, shadow, mgr,
                 denied>>

\* the event loop runs task t from where it was suspended: the new task up
\* to its sleep, the sleeper up to the lock, the waiter into the body with
\* the lock, the task suspended in a body up to the release
Resumes(t) ==
    /\ lock.loop = ""
    /\ ~(t = "cleanup" /\ lock.cancel)
    /\ lock.pc[t] \in {"created", "sleep", "wait_lock", "suspended"}
    /\ lock.pc[t] = "wait_lock" => ~lock.locked
    /\ lock' =
          CASE lock.pc[t] = "created" -> [lock EXCEPT !.pc[t] = "sleep"]
            [] lock.pc[t] = "sleep" ->
                  [lock EXCEPT !.pc[t] = "acquire", !.loop = t]
            [] lock.pc[t] = "wait_lock" ->
                  [lock EXCEPT !.locked = TRUE, !.owner = t,
                               !.pc[t] = "body", !.loop = t]
            [] lock.pc[t] = "suspended" ->
                  [lock EXCEPT !.pc[t] = "release", !.loop = t]
    /\ UNCHANGED <<now, quotas, cleanup_task, last, returned, req, running,
                   mod, gen, blocklist, shadow, mgr,
                 denied>>

\* QuotaStore.shutdown up to  await self._cleanup_task
ShutdownCalled ==
    /\ lock.loop = ""
    /\ lock.shutdown = "idle"
    /\ lock' = IF lock.pc["cleanup"] # "done"
               THEN [lock EXCEPT !.cancel = TRUE, !.shutdown = "awaiting"]
               ELSE [lock EXCEPT !.shutdown = "returned"]
    /\ UNCHANGED <<now, quotas, cleanup_task, last, returned, req, running,
                   mod, gen, blocklist, shadow, mgr,
                 denied>>

\* CancelledError is raised in the task where it is suspended: a task that
\* never ran is just cancelled; inside  async with  the lock is released
\* on the way out; then the handler of lines 41-42 runs
TaskCancelled ==
    /\ lock.loop = ""
    /\ lock.cancel
    /\ lock.pc["cleanup"] \in {"created", "sleep", "wait_lock", "suspended"}
    /\ LET after == IF lock.pc["cleanup"] = "created" THEN "done"
                    ELSE on_cancelled
           released == IF lock.owner = "cleanup"
                       THEN [lock EXCEPT !.locked = FALSE, !.owner = ""]
                       ELSE lock
       IN  /\ lock' = [released EXCEPT !.cancel = FALSE,
                                       !.pc["cleanup"] = after]
           /\ cleanup_task' = IF after = "done" THEN "cancelled"
                              ELSE cleanup_task
    /\ UNCHANGED <<now, quotas, last, returned, req, running, mod, gen,
                   blocklist, shadow, mgr,
                 denied>>

\* await self._cleanup_task  returns (or raises CancelledError, which
\* shutdown passes over): shutdown is over
ShutdownReturns ==
    /\ lock.loop = ""
    /\ lock.shutdown = "awaiting"
    /\ lock.pc["cleanup"] = "done"
    /\ lock' = [lock EXCEPT !.shutdown = "returned"]
    /\ UNCHANGED <<now, quotas, cleanup_task, last, returned, req, running,
                   mod, gen, blocklist, shadow, mgr,
                 denied>>

-----------------------------------------------------------------------------
(* The blocklist of ModerationService and its two mutators.  BLOCKED_TERMS  *)
(* is a class attribute; an instance gets an attribute of its own by the    *)
(* assignment in remove_blocked_term.                                       *)

\* the ModerationService objects: the module's singleton and one more, as
\* the tests construct them
Instances == {"moderation_service", "service"}

\* the terms the callers pass
Terms == {"NewBadWord", "newbadword", "Harm"}

\* [t.lower() for t in terms]
lower_all(terms) == [k \in 1..Len(terms) |-> lower(terms[k])]

\* x in seq
Member(x, seq) == \E k \in 1..Len(seq) : seq[k] = x

\* variant: the membership test compares the term as given
add_blocked_term_exact(terms, term) ==
    IF ~Member(term, terms) THEN Append(terms, lower(term)) ELSE terms

\* add_blocked_term, on the list self.BLOCKED_TERMS resolves to
add_blocked_term(terms, term) ==
    IF ~Member(lower(term), lower_all(terms))
    THEN Append(terms, lower(term))
    ELSE terms

\* the list remove_blocked_term builds
remove_blocked_term(terms, term) ==
    SelectSeq(terms, LAMBDA t : lower(t) # lower(term))

\* self.BLOCKED_TERMS as instance i reads it
BlockedTermsOf(bl, i) == IF bl.own[i] THEN bl.terms[i] ELSE bl.cls

\* the blocklist after the class body ran and the instances were built
BlocklistInit ==
    [cls |-> BLOCKED_TERMS,
     own |-> [i \in Instances |-> FALSE],
     terms |-> [i \in Instances |-> << >>],
     op |-> "none", inst |-> "", term |-> "", before |-> << >>]

\* the record of a mutator call: what was called on which instance with
\* which term, and the list the instance read before the call
BlocklistCall(bl, op, i, term) ==
    [bl EXCEPT !.op = op, !.inst = i, !.term = term,
               !.before = BlockedTermsOf(blocklist, i)]

\* service.add_blocked_term(term): append in place to the list found
AddBlockedTerm(i, term) ==
    /\ blocklist' =
          BlocklistCall(
              IF blocklist.own[i]
              THEN [blocklist EXCEPT
                       !.terms[i] = add_blocked_term(@, term)]
              ELSE [blocklist EXCEPT
                       !.cls = add_blocked_term(@, term)],
              "add", i, term)
    /\ UNCHANGED <<now, quotas, cleanup_task, last, returned, req, running,
                   mod, gen, shadow, lock, mgr,
                 denied>>

\* service.remove_blocked_term(term): a new list, bound to the instance
RemoveBlockedTerm(i, term) ==
    /\ blocklist' =
          BlocklistCall(
              [blocklist EXCEPT
                  !.own[i] = TRUE,
                  !.terms[i] =
                      remove_blocked_term(BlockedTermsOf(blocklist, i), term)],
              "remove", i, term)
    /\ UNCHANGED <<now, quotas, cleanup_task, last, returned, req, running,
                   mod, gen, shadow, lock, mgr,
                 denied>>

-----------------------------------------------------------------------------
(* Specifications *)

Init ==
    /\ now = 0
    /\ quotas = << >>
    /\ cleanup_task = "sleeping"
    /\ last = NoCall
    /\ returned = [d \in DeviceTokens |-> <<>>]
    /\ req = [r \in Reqs |-> IdleReq]
    /\ running = 0
    /\ mod = ModIdle("AsyncOpenAI")
    /\ gen = GenIdle("AsyncOpenAI")
    /\ blocklist = BlocklistInit
    /\ shadow = << >>
    /\ lock = LockInit
    /\ mgr = ManagerIdle
    /\ denied = [d \in DeviceTokens |-> NoDenial]

\* the store under direct calls
NextStore ==
    \/ Tick
    \/ CleanupPass
    \/ Shutdown
    \/ \E d \in StoreArgs : GetUsage(d)
    \/ \E d \in StoreArgs : IncrementUsage(d)
    \/ \E d \in StoreArgs, limit \in Limits : CanUse(d, limit)
    \/ \E d \in StoreArgs : GetResetTime(d)
    \/ \E d \in StoreArgs : ResetQuota(d)

SpecStore == Init /\ [][NextStore]_vars

\* the application: requests through the gate, the clock, reclamation and
\* administrative resets
Next ==
    \/ Tick
    \/ CleanupPass
    \/ \E d \in DeviceTokens : AdminReset(d)
    \/ \E r \in Reqs, request \in Requests : Dispatch(r, request[1], request[2])
    \/ \E r \in Reqs : GateCanUse(r)
    \/ \E r \in Reqs : GateDenyResetTime(r)
    \/ \E r \in Reqs : GateDenyUsage(r)
    \/ \E r \in Reqs : Downstream(r)
    \/ \E r \in Reqs : GateIncrement(r)
    \/ \E r \in Reqs : GateOkResetTime(r)
    \/ \E r \in Reqs : Respond(r)

Spec == Init /\ [][Next]_vars

\* the application, with the denials of each device on record
NextDenial ==
    \/ Tick
    \/ CleanupPass
    \/ \E d \in DeviceTokens : AdminReset(d)
    \/ \E r \in Reqs, request \in Requests :
          DenialDispatch(r, request[1], request[2])
    \/ \E r \in Reqs : DenialGateCanUse(r)
    \/ \E r \in Reqs : GateDenyResetTime(r)
    \/ \E r \in Reqs : GateDenyUsage(r)
    \/ \E r \in Reqs : Downstream(r)
    \/ \E r \in Reqs : GateIncrement(r)
    \/ \E r \in Reqs : GateOkResetTime(r)
    \/ \E r \in Reqs : Respond(r)

SpecDenial == Init /\ [][NextDenial]_vars

\* the application with a store and a downstream that can raise
NextFault ==
    \/ Next
    \/ \E r \in Reqs : StoreRaises(r)
    \/ \E r \in Reqs : DownstreamRaises(r)

SpecFault == Init /\ [][NextFault]_vars

\* the services with or without a configured API key: both clients are
\* built from the same key
InitServices ==
    /\ now = 0
    /\ quotas = << >>
    /\ cleanup_task = "sleeping"
    /\ last = NoCall
    /\ returned = [d \in DeviceTokens |-> <<>>]
    /\ req = [r \in Reqs |-> IdleReq]
    /\ running = 0
    /\ \E client \in Clients :
          /\ mod = ModIdle(client)
          /\ gen = GenIdle(client)
    /\ blocklist = BlocklistInit
    /\ shadow = << >>
    /\ lock = LockInit
    /\ mgr = ManagerIdle
    /\ denied = [d \in DeviceTokens |-> NoDenial]

\* the moderation service under direct calls
NextModeration ==
    \/ \E text \in ModTexts : ModerateContent(text)
    \/ OpenAIModeration
    \/ RegexFilters
    \/ BlocklistCheck
    \/ SubCheckRaises
    \/ \E result \in ProviderResults : ProviderAnswers(result)
    \/ ProviderRaises
    \/ ModerationReturns

SpecModeration == InitServices /\ [][NextModeration]_vars

\* the slot whose request runs the pipeline
PipelineSlot == 1

\* the requests that reach the endpoint: with a device token and without
GenRequests ==
    {<<"/v1/generate", "Bearer deviceAA">>, <<"/v1/generate", None>>}

\* one request at a time through the gate and generate_content
NextGenerate ==
    \/ \E request \in GenRequests :
          Dispatch(PipelineSlot, request[1], request[2])
    \/ GateCanUse(PipelineSlot)
    \/ GateDenyResetTime(PipelineSlot)
    \/ GateDenyUsage(PipelineSlot)
    \/ \E body \in Bodies : GenerateContent(PipelineSlot, body)
    \/ \E outcome \in PipelineProviderOutcomes : InputModerated(outcome)
    \/ LLMNotInitialized
    \/ LLMCall
    \/ LLMRaises
    \/ \E generated_texts \in Completions : LLMReturns(generated_texts)
    \/ \E outcome \in PipelineProviderOutcomes : ChoiceModerated(outcome)
    \/ PipelineReturns(PipelineSlot)
    \/ GateIncrement(PipelineSlot)
    \/ GateOkResetTime(PipelineSlot)
    \/ Respond(PipelineSlot)

SpecGenerate == InitServices /\ [][NextGenerate]_vars

\* the slot of the request whose provider call never returns
HungSlot == 2

\* the request that hangs: a protected path and the device id that other
\* requests present as well
HungRequests == {<<"/v1/generate", "Bearer deviceAA">>}

\* the slots of the other requests
OtherSlots == Reqs \ {HungSlot}

\* requests through the gate next to a request that, once it is in
\* call_next, stays there: its classification or generation call never
\* returns.  For the other requests call_next returns with one of the
\* answers of the routes.
NextHung ==
    \/ \E request \in HungRequests : Dispatch(HungSlot, request[1], request[2])
    \/ \E r \in OtherSlots, request \in Requests :
          Dispatch(r, request[1], request[2])
    \/ \E r \in Reqs : GateCanUse(r)
    \/ \E r \in Reqs : GateDenyResetTime(r)
    \/ \E r \in Reqs : GateDenyUsage(r)
    \/ \E r \in OtherSlots : Downstream(r)
    \/ \E r \in OtherSlots : GateIncrement(r)
    \/ \E r \in OtherSlots : GateOkResetTime(r)
    \/ \E r \in Reqs : Respond(r)

\* the event loop runs every task that is ready, and the providers answer
\* (or fail) the calls of the requests that are not hung
SpecHung ==
    /\ Init
    /\ [][NextHung]_vars
    /\ \A r \in OtherSlots :
          /\ WF_vars(GateCanUse(r))
          /\ WF_vars(GateDenyResetTime(r))
          /\ WF_vars(GateDenyUsage(r))
          /\ SF_vars(Downstream(r))
          /\ WF_vars(GateIncrement(r))
          /\ WF_vars(GateOkResetTime(r))
          /\ SF_vars(Respond(r))

\* check_quota next to the other tasks' increments and resets, the clock
\* and reclamation
NextManager ==
    \/ Tick
    \/ CleanupPass
    \/ \E d \in StoreArgs : ManagerCheckQuota(d)
    \/ ManagerCanUse
    \/ ManagerGetResetTime
    \/ ManagerGetStoreStats
    \/ \E d \in DeviceTokens : IncrementUsage(d)
    \/ \E d \in DeviceTokens : ResetQuota(d)

SpecManager == Init /\ [][NextManager]_vars

\* the store under get_usage, increment_usage and can_use, with the
\* reclamation task waking at any moment, or stopped and never waking again
NextReclaim ==
    \/ Tick
    \/ CleanupPass
    \/ Shutdown
    \/ \E d \in StoreArgs : MirroredGetUsage(d)
    \/ \E d \in StoreArgs : MirroredIncrementUsage(d)
    \/ \E d \in StoreArgs, limit \in Limits : MirroredCanUse(d, limit)

SpecReclaim == Init /\ [][NextReclaim]_vars

\* the store's lock under one caller, the reclamation task and shutdown
NextLock ==
    \/ Tick
    \/ \E op \in LockedOps, d \in LockDevices : CallStarts(op, d)
    \/ \E t \in Tasks : Acquires(t)
    \/ \E t \in Tasks : Body(t)
    \/ \E t \in Tasks : Releases(t)
    \/ \E t \in Tasks : Resumes(t)
    \/ ShutdownCalled
    \/ TaskCancelled
    \/ ShutdownReturns

SpecLock == Init /\ [][NextLock]_vars

\* the event loop: a task that holds it runs on to its next suspension
\* point; a task that is ready (cancelled in its sleep, woken by the end of
\* the task it awaits, handed the lock) is run, the ready queue being
\* first-in first-out
SpecLockFair ==
    /\ SpecLock
    /\ \A t \in Tasks : WF_vars(Acquires(t))
    /\ \A t \in Tasks : WF_vars(Body(t))
    /\ \A t \in Tasks : WF_vars(Releases(t))
    /\ SF_vars(Resumes("caller"))
    /\ SF_vars(TaskCancelled)
    /\ SF_vars(ShutdownReturns)

\* the blocklist under calls of its mutators
NextBlocklist ==
    \/ \E i \in Instances, term \in Terms : AddBlockedTerm(i, term)
    \/ \E i \in Instances, term \in Terms : RemoveBlockedTerm(i, term)

SpecBlocklist == Init /\ [][NextBlocklist]_vars

-----------------------------------------------------------------------------
(* Properties of the store, checked under SpecStore *)

\* m is the first midnight after the clock reading t
IsNextMidnight(m, t) == m % DayLen = 0 /\ t < m /\ m <= t + DayLen

\* the step is a direct call of method op
Called(op) == last'.n # last.n /\ last'.op = op

\* C1: the increment_usage calls issued against an entry that started at
\* count 0, in one window, returned exactly the values 1..N, each once, and
\* get_usage then returns N
C1_IncrementsReturnOneToN ==
    \A d \in DeviceTokens :
        (d \in DOMAIN quotas /\ now < quotas[d].reset_time) =>
            LET N == Len(returned[d])
            IN  /\ {returned[d][i] : i \in 1..N} = 1..N
                /\ get_usage(quotas, d, now).ret = N

C1_Witness ==
    \E d \in DeviceTokens :
        /\ d \in DOMAIN quotas
        /\ now < quotas[d].reset_time
        /\ Len(returned[d]) = MaxCount
        /\ last.op = "increment_usage"
        /\ last.device = d

\* C5: get_usage, can_use and increment_usage never lower the count of an
\* entry while now < reset_at; called with now >= reset_at they set the
\* count back to 0 (increment_usage then counts its own call) and move
\* reset_at to the next midnight, which is later than the old reset_at and
\* later than now, so that the reset happens once per crossing
C5_ResetOnFirstAccessAfterMidnight ==
    [][\A d \in DeviceTokens :
          ( /\ \/ Called("get_usage") \/ Called("can_use")
               \/ Called("increment_usage")
            /\ last'.device = d
            /\ d \in DOMAIN quotas )
          => /\ d \in DOMAIN quotas'
             /\ IF now < quotas[d].reset_time
                THEN /\ quotas'[d].count >= quotas[d].count
                     /\ quotas'[d].reset_time = quotas[d].reset_time
                ELSE /\ quotas'[d].count =
                           IF last'.op = "increment_usage" THEN 1 ELSE 0
                     /\ IsNextMidnight(quotas'[d].reset_time, now)
                     /\ quotas'[d].reset_time > quotas[d].reset_time
      ]_vars

C5_Witness ==
    \E d \in DeviceTokens :
        /\ last.op = "get_usage"
        /\ last.device = d
        /\ last.ret = 0
        /\ d \in DOMAIN quotas
        /\ quotas[d].count = 0
        /\ quotas[d].reset_time = 2 * DayLen
        /\ now = DayLen

\* C6: the answer of can_use(d, limit) is true exactly when get_usage(d),
\* asked in the state can_use was called in or in the state it left, is
\* below limit
C6_CanUseIffUsageBelowLimit ==
    [][Called("can_use") =>
          /\ last'.ok <=> (get_usage(quotas, last'.device, now).ret < last'.limit)
          /\ last'.ok <=> (get_usage(quotas', last'.device, now').ret < last'.limit)
      ]_vars

C6_Witness ==
    /\ last.op = "can_use"
    /\ ~last.ok
    /\ last.limit = 2
    /\ last.device \in DOMAIN quotas
    /\ quotas[last.device].count = 2
    /\ now < quotas[last.device].reset_time

\* C7: increment_usage(d), d not empty, returns 1 and leaves the entry
\* [count 1, reset_at next midnight] when d had no entry or an expired one,
\* and otherwise returns the previous count + 1 and keeps reset_at; the
\* values returned in one window are 1, 2, ... in this order and get_usage
\* then returns the last of them; no other entry changes
C7_IncrementUsage ==
    [][\A d \in DeviceTokens :
          (Called("increment_usage") /\ last'.device = d) =>
             LET fresh == d \notin DOMAIN quotas \/ now >= quotas[d].reset_time
             IN  /\ DOMAIN quotas' = (DOMAIN quotas) \cup {d}
                 /\ \A e \in (DOMAIN quotas) \ {d} : quotas'[e] = quotas[e]
                 /\ quotas'[d].count = last'.ret
                 /\ fresh => /\ last'.ret = 1
                             /\ IsNextMidnight(quotas'[d].reset_time, now)
                 /\ ~fresh => /\ last'.ret = quotas[d].count + 1
                              /\ quotas'[d].reset_time = quotas[d].reset_time
                 /\ returned'[d] = [i \in 1..last'.ret |-> i]
                 /\ get_usage(quotas', d, now').ret = last'.ret
      ]_vars

C7_Witness ==
    \E d \in DeviceTokens :
        /\ last.op = "increment_usage"
        /\ last.device = d
        /\ last.ret = 1
        /\ now >= DayLen
        /\ quotas[d] = [count |-> 1, reset_time |-> _get_next_midnight_utc(now)]

\* C8: get_usage(d), d not empty, returns 0 and leaves the store as it is
\* when d has no entry; returns 0 and rewrites the entry of d to [count 0,
\* reset_at next midnight] when now >= reset_at; returns the count and
\* leaves the store as it is otherwise
C8_GetUsage ==
    [][\A d \in DeviceTokens :
          (Called("get_usage") /\ last'.device = d) =>
             IF d \notin DOMAIN quotas
             THEN last'.ret = 0 /\ quotas' = quotas
             ELSE IF now >= quotas[d].reset_time
             THEN /\ last'.ret = 0
                  /\ DOMAIN quotas' = DOMAIN quotas
                  /\ \A e \in (DOMAIN quotas) \ {d} : quotas'[e] = quotas[e]
                  /\ quotas'[d].count = 0
                  /\ IsNextMidnight(quotas'[d].reset_time, now)
             ELSE last'.ret = quotas[d].count /\ quotas' = quotas
      ]_vars

C8_Witness ==
    \E d \in DeviceTokens :
        /\ last.op = "get_usage"
        /\ last.device = d
        /\ last.ret = 0
        /\ d \notin DOMAIN quotas
        /\ quotas # << >>

\* C36: get_reset_time(d) for a non-empty d returns a time strictly later
\* than the time of the call, in every store state
C36_ResetTimeIsInTheFuture ==
    [][\A d \in DeviceTokens :
          (Called("get_reset_time") /\ last'.device = d) => now < last'.ret
      ]_vars

C25_ResetQuotaOnlyExistingEntry ==
    [][\A d \in StoreArgs :
          (Called("reset_quota") /\ last'.device = d) =>
             IF d \in DOMAIN quotas
             THEN /\ DOMAIN quotas' = DOMAIN quotas
                  /\ \A e \in (DOMAIN quotas) \ {d} : quotas'[e] = quotas[e]
                  /\ quotas'[d].count = 0
                  /\ IsNextMidnight(quotas'[d].reset_time, now)
                  /\ get_usage(quotas', d, now').ret = 0
             ELSE quotas' = quotas
      ]_vars

C25_Witness ==
    \E d, e \in DeviceTokens :
        /\ last.op = "reset_quota"
        /\ last.device = d
        /\ d \notin DOMAIN quotas
        /\ e \in DOMAIN quotas
        /\ quotas[e].count > 0

\* C26: increment_usage and get_usage called with the empty string or
\* with no device id return 0 and leave the store exactly as it was
C26_EmptyDeviceIsNoOp ==
    [][\A d \in StoreArgs \ DeviceTokens :
          ( /\ Called("increment_usage") \/ Called("get_usage")
            /\ last'.device = d )
          => /\ last'.ret = 0
             /\ quotas' = quotas
             /\ d \notin DOMAIN quotas'
      ]_vars

C26_Witness ==
    /\ last.op = "increment_usage"
    /\ last.device = ""
    /\ last.ret = 0
    /\ quotas # << >>
    /\ "" \notin DOMAIN quotas

\* the step is a reclamation pass that found something: no call, no tick
\* of the clock, and the store is not what it was
PassStep == last' = last /\ now' = now /\ quotas' # quotas

\* C31: a reclamation pass removes exactly the entries with reset_at <= now
\* and leaves every other entry as it is; an entry disappears from the
\* store in no other step (reset_quota and the other calls keep every
\* token that has an entry)
C31_OnlyThePassDeletesAndOnlyExpired ==
    [][/\ PassStep =>
             /\ DOMAIN quotas' =
                   {d \in DOMAIN quotas : ~(quotas[d].reset_time <= now)}
             /\ \A d \in DOMAIN quotas' : quotas'[d] = quotas[d]
       /\ \A d \in (DOMAIN quotas) \ (DOMAIN quotas') :
             PassStep /\ quotas[d].reset_time <= now
      ]_vars

\* the last call found an entry of d (expired by then), which is gone now,
\* while the live entry of e is still there
C31_Witness ==
    \E d, e \in DeviceTokens :
        /\ last.op = "get_reset_time"
        /\ last.device = d
        /\ last.fresh_reset = -1
        /\ last.ret <= now
        /\ d \notin DOMAIN quotas
        /\ e \in DOMAIN quotas
        /\ now < quotas[e].reset_time
        /\ quotas[e].count > 0

-----------------------------------------------------------------------------
(* Properties of the gate, checked under Spec and SpecFault *)

\* the request of slot r is metered: protected path and a device id
Metered(r) == req[r].pc # "idle" /\ req[r].device_token # None

\* C2: whatever the interleaving of requests with the same device id, the
\* stored count of a device never exceeds the configured limit
C2_CountNeverExceedsLimit ==
    \A d \in DOMAIN quotas : quotas[d].count <= free_tier_limit

\* C3: a metered request the gate allowed has added exactly 1 to its
\* device's usage once downstream returned a 2xx status, and nothing
\* before that or on any other status
C3_CountedIffDownstream2xx ==
    \A r \in Reqs :
        (Metered(r) /\ req[r].can_proceed = "true") =>
            req[r].consumed =
                IF req[r].pc \in {"ok_reset_time", "done"}
                   /\ req[r].status \in 200..299
                THEN 1 ELSE 0

C3_Witness ==
    \E r \in Reqs :
        /\ Metered(r)
        /\ req[r].pc = "done"
        /\ req[r].can_proceed = "true"
        /\ req[r].status = 200
        /\ req[r].consumed = 1
        /\ quotas[req[r].device_token].count = free_tier_limit

\* C4: a metered request reaches downstream only after can_use answered
\* true; when can_use answered false the request never reaches downstream
\* and ends as 429 QUOTA_EXCEEDED
C4_CanUseBeforeDownstream ==
    \A r \in Reqs :
        Metered(r) =>
            /\ req[r].calls > 0 => req[r].can_proceed = "true"
            /\ req[r].can_proceed = "false" =>
                  /\ req[r].calls = 0
                  /\ req[r].pc \in {"deny_reset_time", "deny_usage", "done"}
                  /\ req[r].pc = "done" =>
                        req[r].status = 429 /\ req[r].code = "QUOTA_EXCEEDED"

C4_Witness ==
    \E r \in Reqs :
        /\ Metered(r)
        /\ req[r].pc = "done"
        /\ req[r].can_proceed = "false"
        /\ req[r].status = 429
        /\ req[r].calls = 0

\* C9: a request during which a quota-store call of the gate raised is
\* passed to downstream and answered with downstream's response, never
\* with 429, and no count is recorded for it
C9_FailOpenUnmetered ==
    \A r \in Reqs :
        req[r].raised = "store" =>
            /\ req[r].calls >= 1
            /\ req[r].status # 429
            /\ req[r].consumed = 0

\* the record the store holds for device b, if it holds one
Record(qs, b) ==
    IF b \in DOMAIN qs THEN qs[b] ELSE [count |-> 0 - 1, reset_time |-> 0 - 1]

\* C37: a step of a gated request for device A (its can_use,
\* get_reset_time, get_usage and increment_usage calls) leaves the record
\* of every other device B as it is, present or absent, and a reset_quota
\* changes the record of one device only
C37_DevicesAreIndependent ==
    [][/\ \A r \in Reqs :
            req'[r] # req[r] =>
                \A b \in DeviceTokens \ {req[r].device_token} :
                    Record(quotas', b) = Record(quotas, b)
       /\ (req' = req /\ DOMAIN quotas' = DOMAIN quotas) =>
            \E a \in DeviceTokens :
                \A b \in DeviceTokens \ {a} :
                    Record(quotas', b) = Record(quotas, b)
      ]_vars

C37_Witness ==
    \E r \in Reqs, b \in DeviceTokens :
        /\ req[r].pc = "ok_reset_time"
        /\ b # req[r].device_token
        /\ req[r].device_token \in DOMAIN quotas
        /\ quotas[req[r].device_token].count = 1
        /\ b \in DOMAIN quotas
        /\ quotas[b].count = 2
        /\ quotas[b].reset_time <= now

\* C38: the first protected request a device makes at or after the
\* reset_at its record had when the gate denied it is allowed by the gate
C38_DenialIsNotPermanent ==
    [][\A r \in Reqs :
          ( /\ req[r].pc = "can_use"
            /\ req'[r].pc # "can_use"
            /\ req[r].device_token \in DeviceTokens
            /\ denied[req[r].device_token].first = r )
          => req'[r].can_proceed = "true"
      ]_vars

\* C35: a request answered 429 QUOTA_EXCEEDED reports a current_usage that
\* is at least the daily_limit it reports, whatever happened between the
\* gate's can_use, get_reset_time and get_usage calls
C35_DeniedReportsUsageAtLimit ==
    \A r \in Reqs :
        (req[r].status = 429 /\ req[r].code = "QUOTA_EXCEEDED") =>
            req[r].current_usage >= free_tier_limit

\* C34: the gate has called call_next at most once for each request,
\* whatever raised while the request was in the gate
C34_DownstreamAtMostOnce ==
    \A r \in Reqs : req[r].calls <= 1

\* the headers  Bearer <token>  with a token of at least 8 characters
BearerOf(token) == "Bearer " \o token

WellFormedAuth(auth) ==
    \E token \in {"deviceAA", "deviceBB", "device7", ""} :
        auth = BearerOf(token) /\ Len(token) >= 8

\* C10: a request on a path outside the protected set, or without a header
\* of the form  Bearer <token>  with at least 8 token characters, makes no
\* quota-store call, is handed to downstream and is never answered 429;
\* the device id of a request is the token of such a header, nothing else
C10_BypassWithoutDeviceOrProtection ==
    \A r \in Reqs :
        req[r].pc # "idle" =>
            /\ (req[r].path # "/v1/generate" \/ ~WellFormedAuth(req[r].auth)) =>
                  /\ ~req[r].touched
                  /\ req[r].consumed = 0
                  /\ req[r].calls = 1
                  /\ req[r].status # 429
                  /\ req[r].pc \in {"bypass", "done"}
            /\ req[r].device_token # None =>
                  /\ WellFormedAuth(req[r].auth)
                  /\ req[r].auth = BearerOf(req[r].device_token)

C10_Witness ==
    \E r \in Reqs :
        /\ req[r].pc = "done"
        /\ req[r].path = "/v1/generate"
        /\ req[r].auth = "Bearer device7"
        /\ req[r].status = 200
        /\ ~req[r].touched
        /\ \E q \in Reqs : req[q].pc = "call_next"

\* C11: the response to a metered request the gate allowed carries the
\* limit, remaining and reset headers, whatever status downstream returned
C11_HeadersOnEveryMeteredResponse ==
    \A r \in Reqs :
        (Metered(r) /\ req[r].can_proceed = "true" /\ req[r].pc = "done") =>
            /\ req[r].limit_hdr # -1
            /\ req[r].remaining_hdr # -1
            /\ req[r].reset_hdr # -1

\* C28: when downstream answered a metered request with a 2xx status, the
\* gate's increment_usage returned n (the count it stored) and the response
\* got X-RateLimit-Limit = the configured limit and X-RateLimit-Remaining =
\* limit - n, or 0 when n is above the limit; both stay as they are until
\* the response is returned, and the remaining value is never negative
C28_LimitAndRemainingHeaders ==
    [][\A r \in Reqs :
          /\ (req[r].pc = "increment" /\ req'[r].pc = "ok_reset_time") =>
                LET n == quotas'[req[r].device_token].count
                IN  /\ Metered(r)
                    /\ 200 <= req[r].status /\ req[r].status <= 299
                    /\ req'[r].limit_hdr = free_tier_limit
                    /\ req'[r].remaining_hdr =
                         (IF n < free_tier_limit THEN free_tier_limit - n ELSE 0)
                    /\ req'[r].remaining_hdr >= 0
          /\ (req[r].pc = "ok_reset_time" /\ req'[r].pc = "done") =>
                /\ req'[r].limit_hdr = req[r].limit_hdr
                /\ req'[r].remaining_hdr = req[r].remaining_hdr
      ]_vars

C28_Witness ==
    \E r \in Reqs :
        /\ Metered(r)
        /\ req[r].pc = "done"
        /\ req[r].status = 200
        /\ req[r].limit_hdr = free_tier_limit
        /\ req[r].remaining_hdr = 0
        /\ req[r].device_token \in DOMAIN quotas
        /\ quotas[req[r].device_token].count = free_tier_limit + 1

\* C12: a metered request whose device has used the configured limit or
\* more when can_use is asked goes down the denied branch and is answered
\* 429 QUOTA_EXCEEDED with remaining 0, the configured limit and a
\* Retry-After that is present and not negative
C12_DeniedAtLimit ==
    [][\A r \in Reqs :
          /\ ( /\ req[r].pc = "can_use"
               /\ req'[r].pc # "can_use"
               /\ Usage(quotas, req[r].device_token, now) >= free_tier_limit )
             => /\ req'[r].pc = "deny_reset_time"
                /\ req'[r].can_proceed = "false"
          /\ (req[r].pc = "deny_reset_time" /\ req'[r].pc # "deny_reset_time")
             => req'[r].pc = "deny_usage"
          /\ (req[r].pc = "deny_usage" /\ req'[r].pc # "deny_usage")
             => /\ req'[r].pc = "done"
                /\ req'[r].status = 429
                /\ req'[r].code = "QUOTA_EXCEEDED"
                /\ req'[r].remaining_hdr = 0
                /\ req'[r].limit_hdr = free_tier_limit
                /\ req'[r].retry_after >= 0
      ]_vars

C12_Witness ==
    \E r \in Reqs :
        /\ req[r].pc = "done"
        /\ req[r].status = 429
        /\ req[r].remaining_hdr = 0
        /\ req[r].retry_after = 0
        /\ req[r].reset_hdr < now

-----------------------------------------------------------------------------
(* Properties of generate_content below the gate, checked under            *)
(* SpecGenerate                                                            *)

\* C13: when the generation call raises for a request whose input was
\* judged safe, generate_content answers 503 GENERATION_FAILED after at
\* most one provider call and without choices, and the gate ends the
\* request with that answer and without counting it
C13_ProviderFailureIs503Uncounted ==
    [][/\ (gen'.llm_raised /\ ~gen.llm_raised) =>
             /\ gen.input_verdict = "safe"
             /\ gen'.pc = "responded"
             /\ gen'.status = 503
             /\ gen'.code = "GENERATION_FAILED"
             /\ gen'.choices = << >>
             /\ gen'.generate_calls = 1
             /\ gen'.provider_calls <= 1
       /\ (gen.pc = "responded" /\ gen.llm_raised /\ gen'.pc = "idle") =>
             /\ req'[gen.slot].status = 503
             /\ req'[gen.slot].code = "GENERATION_FAILED"
             /\ quotas' = quotas
       /\ \A r \in Reqs :
             req'[r].code = "GENERATION_FAILED" =>
                 /\ req'[r].pc = "done"
                 /\ req'[r].consumed = 0
                 /\ quotas' = quotas
      ]_vars

C13_Witness ==
    \E r \in Reqs :
        /\ req[r].pc = "done"
        /\ req[r].code = "GENERATION_FAILED"
        /\ req[r].can_proceed = "true"
        /\ req[r].consumed = 0
        /\ req[r].device_token \in DOMAIN quotas
        /\ quotas[req[r].device_token].count = 1
        /\ ~Falsy(gen.client)

\* the list under key in one sub-check's detail, empty when the key is not
\* there
ListUnder(detail, key) == IF key \in DOMAIN detail THEN detail[key] ELSE << >>

\* C40: a 400 CONTENT_UNSAFE response carries a non-empty
\* flagged_categories list: at least one of the provider's flagged
\* categories, the pattern violations found in the context and the blocked
\* terms found in it is non-empty, and the list is the three in that order
C40_UnsafeResponseNamesCategories ==
    (gen.status = 400 /\ gen.code = "CONTENT_UNSAFE") =>
        LET results == gen.details.moderation_results
            provider == ListUnder(results.openai, "flagged_categories")
            violations == _regex_filters(gen.context).detail.violations
            terms == _blocklist_check(gen.context).detail.blocked_terms_found
        IN  /\ ~results.overall_safe
            /\ provider # << >> \/ violations # << >> \/ terms # << >>
            /\ gen.details.flagged_categories # << >>
            /\ gen.details.flagged_categories = provider \o violations \o terms

C40_Witness ==
    /\ gen.status = 400
    /\ gen.code = "CONTENT_UNSAFE"
    /\ gen.context = "a@b.co at School"
    /\ gen.details.flagged_categories = <<"harassment", "email", "school">>

\* C27: a request with a valid body and an input judged safe, served by a
\* deployment that got no API credential at start-up, is answered 503
\* SERVICE_UNAVAILABLE and no provider call is made for it
C27_UnconfiguredProviderIsServiceUnavailable ==
    ( /\ Falsy(gen.client)
      /\ gen.pc = "responded"
      /\ gen.input_verdict = "safe" )
    => /\ gen.status = 503
       /\ gen.code = "SERVICE_UNAVAILABLE"
       /\ gen.provider_calls = 0

\* C14: an input the classifier judged unsafe ends generate_content with
\* 400 CONTENT_UNSAFE carrying the three checks' details, without any
\* generation call, and the gate counts nothing for the request; a
\* generation call is made only after a safe input verdict
C14_UnsafeInputStopsBeforeGeneration ==
    [][/\ (gen.pc = "moderate_input" /\ gen'.input_verdict = "unsafe") =>
             /\ gen'.pc = "responded"
             /\ gen'.status = 400
             /\ gen'.code = "CONTENT_UNSAFE"
             /\ DOMAIN gen'.details.moderation_results
                    = {"openai", "regex", "blocklist", "overall_safe"}
             /\ ~gen'.details.moderation_results.overall_safe
             /\ gen'.generate_calls = 0
             /\ gen'.provider_calls = 0
       /\ gen'.generate_calls > 0 => gen'.input_verdict = "safe"
       /\ \A r \in Reqs :
             req'[r].code = "CONTENT_UNSAFE" =>
                 /\ req'[r].status = 400
                 /\ req'[r].pc = "done"
                 /\ req'[r].consumed = 0
                 /\ quotas' = quotas
      ]_vars

C14_Witness ==
    \E r \in Reqs :
        /\ req[r].pc = "done"
        /\ req[r].code = "CONTENT_UNSAFE"
        /\ req[r].status = 400
        /\ req[r].can_proceed = "true"
        /\ req[r].consumed = 0
        /\ req[r].device_token \in DOMAIN quotas
        /\ quotas[req[r].device_token].count = 1

\* C15: a 200 response has exactly 3 choices for pickup and 2 for reply
\* and carries the mode and the style of the request
C15_ExactCountAndEcho ==
    (gen.pc = "responded" /\ gen.status = 200) =>
        /\ Len(gen.choices) = IF gen.mode = "pickup" THEN 3 ELSE 2
        /\ gen.resp_mode = gen.mode
        /\ gen.resp_style = gen.style

C15_Witness ==
    /\ gen.pc = "responded"
    /\ gen.status = 200
    /\ gen.mode = "pickup"
    /\ gen.generated_texts = <<"No harm\nHey\nFun\nWow", " Hi \r\n\n Yo\t">>
    /\ Len(gen.choices) = 3
    /\ gen.verdicts = <<FALSE, FALSE, FALSE>>

\* C16: every entry of the candidate list got its own verdict, an entry
\* judged unsafe is replaced at its position by the post-generation
\* fallback of the mode, an entry judged safe is kept, and that fallback
\* differs from the padding fallback of the mode
C16_UnsafeEntriesReplacedInPlace ==
    (gen.pc = "responded" /\ gen.status = 200) =>
        LET n == IF gen.mode = "pickup" THEN 3 ELSE 2
            fallback == IF gen.mode = "pickup"
                        THEN "I'd love to get to know you better!"
                        ELSE "That sounds great!"
        IN  /\ Len(gen.verdicts) = n
            /\ Len(gen.choices) = Len(gen.candidates)
            /\ \A i \in 1..Len(gen.choices) :
                  /\ gen.choices[i] =
                        IF gen.verdicts[i] THEN gen.candidates[i] ELSE fallback
                  /\ gen.verdicts[i] =>
                        /\ _blocklist_check(gen.candidates[i]).is_safe
                        /\ _regex_filters(gen.candidates[i]).is_safe
            /\ fallback # padding_fallback(gen.mode)

C16_Witness ==
    /\ gen.pc = "responded"
    /\ gen.status = 200
    /\ gen.mode = "pickup"
    /\ gen.candidates = <<"No harm", "Hey", "Fun">>
    /\ gen.choices = <<"I'd love to get to know you better!", "Hey", "Fun">>

\* the lines of a text: cut at every line break, each piece trimmed, the
\* empty pieces left out
TrimmedLines(text) ==
    SelectSeq([i \in 1..Len(split(text, "\n")) |-> strip(split(text, "\n")[i])],
              LAMBDA line : line # "")

RECURSIVE AllTrimmedLines(_)
AllTrimmedLines(texts) ==
    IF texts = << >>
    THEN << >>
    ELSE TrimmedLines(Head(texts)) \o AllTrimmedLines(Tail(texts))

\* C17: the candidate list that goes to re-moderation is the first
\* expected_count elements of: the non-empty trimmed lines of all
\* completions, in order, followed by copies of the mode's padding fallback
C17_CandidatesAreLinesThenPadding ==
    gen.pc \in {"remoderate", "responded"} /\ gen.status \in {0, 200}
        /\ gen.input_verdict = "safe" /\ ~gen.llm_raised =>
        LET n == IF gen.mode = "pickup" THEN 3 ELSE 2
            padding == IF gen.mode = "pickup"
                       THEN "I'd love to know more about you!"
                       ELSE "That's interesting! Tell me more."
            lines == AllTrimmedLines(gen.generated_texts)
        IN  gen.candidates =
                [i \in 1..n |-> IF i <= Len(lines) THEN lines[i] ELSE padding]

C17_Witness ==
    /\ gen.pc = "responded"
    /\ gen.status = 200
    /\ gen.mode = "pickup"
    /\ gen.generated_texts = <<"Hi">>
    /\ gen.choices = <<"Hi", "I'd love to know more about you!",
                       "I'd love to know more about you!">>

-----------------------------------------------------------------------------
(* Properties of the moderation service, checked under SpecModeration *)

\* the text has no character other than white space
WhitespaceOnly(text) ==
    \A i \in 1..Len(text) : Char(text, i) \in {" ", "\t", "\n", "\r"}

\* the verdict a sub-check contributes: safe when it raised
Verdict(result) == IF result.exc THEN TRUE ELSE result.is_safe

\* C18: for a text that is not blank moderate_content returns after all
\* three sub-checks have ended; is_safe is the conjunction of their
\* verdicts, where a sub-check that raised, or whose provider call failed,
\* counts as safe and has its error in its detail
C18_AllThreeChecksFoldedFailOpen ==
    (mod.pc = "returned" /\ ~WhitespaceOnly(mod.text)) =>
        /\ mod.invoked = Checks
        /\ DOMAIN mod.results = Checks
        /\ mod.ret.is_safe = \A k \in Checks : Verdict(mod.results[k])
        /\ mod.ret.details.overall_safe = mod.ret.is_safe
        /\ \A k \in Checks :
              mod.results[k].exc => "error" \in DOMAIN mod.ret.details[k]
        /\ mod.provider = "raised" =>
              /\ "error" \in DOMAIN mod.ret.details.openai
              /\ mod.ret.is_safe = \A k \in {"regex", "blocklist"} :
                                       Verdict(mod.results[k])

C18_Witness ==
    /\ mod.pc = "returned"
    /\ mod.text = "I'm UNDERAGE"
    /\ mod.provider = "raised"
    /\ mod.results["regex"].exc
    /\ ~mod.results["blocklist"].exc
    /\ ~mod.ret.is_safe

\* C19: for an empty or whitespace-only text moderate_content returns
\* is_safe true with the reason empty_content and starts no sub-check and
\* no provider call
C19_BlankInputSafeWithoutChecks ==
    (mod.pc = "returned" /\ WhitespaceOnly(mod.text)) =>
        /\ mod.ret.is_safe
        /\ DOMAIN mod.ret.details = {"reason"}
        /\ mod.ret.details.reason = "empty_content"
        /\ mod.invoked = {}
        /\ mod.provider = "none"
        /\ DOMAIN mod.results = {}

C19_Witness ==
    /\ mod.pc = "returned"
    /\ mod.text = "\n\t"
    /\ mod.ret.is_safe
    /\ mod.invoked = {}
    /\ ~Falsy(mod.client)

\* x occurs in seq
InSeq(x, seq) == \E i \in 1..Len(seq) : seq[i] = x

\* C20: from a provider answer, harassment, sexual and violence are
\* flagged exactly when their score is above 0.90, 0.90 and 0.95 (here in
\* hundredths), and the sub-check is safe exactly when none is flagged,
\* whatever the provider's own flag says
C20_FlaggedIffScoreAboveThreshold ==
    mod.provider = "answered" =>
        LET openai == mod.results["openai"]
            scores == mod.answer.category_scores
        IN  /\ InSeq("harassment", openai.detail.flagged_categories)
                  <=> scores["harassment"] > 90
            /\ InSeq("sexual", openai.detail.flagged_categories)
                  <=> scores["sexual"] > 90
            /\ InSeq("violence", openai.detail.flagged_categories)
                  <=> scores["violence"] > 95
            /\ openai.is_safe <=> openai.detail.flagged_categories = << >>
            /\ openai.detail.flagged = mod.answer.flagged

C20_Witness ==
    /\ mod.provider = "answered"
    /\ ~mod.answer.flagged
    /\ mod.answer.category_scores["harassment"] = 91
    /\ mod.answer.category_scores["sexual"] = 90
    /\ mod.answer.category_scores["violence"] = 95
    /\ mod.results["openai"].detail.flagged_categories = <<"harassment">>
    /\ ~mod.results["openai"].is_safe

-----------------------------------------------------------------------------
(* Properties of the store with and without reclamation, checked under     *)
(* SpecReclaim                                                             *)

\* C22: every get_usage, increment_usage and can_use call returns what the
\* same call returns from a store that got the same calls at the same
\* clock readings and never a reclamation pass, wherever passes were
\* interleaved and whether or not the task was stopped
C22_ReclamationNeverChangesAnswers ==
    [][\A d \in StoreArgs :
          /\ (Called("get_usage") /\ last'.device = d) =>
                last'.ret = get_usage(shadow, d, now).ret
          /\ (Called("increment_usage") /\ last'.device = d) =>
                last'.ret = increment_usage(shadow, d, now).ret
          /\ (Called("can_use") /\ last'.device = d) =>
                last'.ok = can_use(shadow, d, last'.limit, now).ret
      ]_vars

C22_Witness ==
    \E d \in DeviceTokens :
        /\ last.op = "increment_usage"
        /\ last.device = d
        /\ last.ret = 1
        /\ shadow # quotas
        /\ DOMAIN quotas = {d}
        /\ DOMAIN shadow = DeviceTokens
        /\ shadow[d] = quotas[d]

-----------------------------------------------------------------------------
(* Properties of QuotaManager, checked under SpecManager *)

\* C32: the dictionary check_quota returns for a device is consistent:
\* remaining = max(0, limit - usage), and can_use is true exactly when
\* usage < limit
C32_CheckQuotaSnapshotConsistent ==
    (mgr.pc = "returned" /\ ~Falsy(mgr.device)) =>
        /\ mgr.remaining =
              (IF mgr.usage < mgr.limit THEN mgr.limit - mgr.usage ELSE 0)
        /\ mgr.can_use <=> (mgr.usage < mgr.limit)

\* the entries whose window is open
Unexpired == {d \in DOMAIN quotas : now < quotas[d].reset_time}

\* the sum of the counts of the entries of tokens
RECURSIVE CountSum(_)
CountSum(tokens) ==
    IF tokens = {} THEN 0
    ELSE LET d == CHOOSE x \in tokens : TRUE
         IN  quotas[d].count + CountSum(tokens \ {d})

\* C33: get_stats leaves the store as it is and reports total_devices =
\* the number of entries, active_quotas = the number of entries with
\* now < reset_at and total_usage_today = the sum of the counts of those
\* entries; so active_quotas <= total_devices
C33_GetStats ==
    [][(mgr'.pc = "stats" /\ mgr' # mgr) =>
          /\ quotas' = quotas
          /\ mgr'.stats.total_devices = Cardinality(DOMAIN quotas)
          /\ mgr'.stats.active_quotas = Cardinality(Unexpired)
          /\ mgr'.stats.total_usage_today = CountSum(Unexpired)
          /\ mgr'.stats.active_quotas <= mgr'.stats.total_devices
      ]_vars

C33_Witness ==
    /\ mgr.pc = "stats"
    /\ mgr.stats.total_devices = 2
    /\ mgr.stats.active_quotas = 1
    /\ mgr.stats.total_usage_today = 2
    /\ \E d \in DOMAIN quotas : quotas[d].reset_time <= now /\ quotas[d].count > 0

-----------------------------------------------------------------------------
(* Properties of a request next to a hung one, checked under SpecHung *)

\* C29: a request suspended in call_next does not have the event loop (and
\* so is in no store call), and while the request of the hung slot stays
\* in call_next for ever, every other request that has arrived, with the
\* same device id, another one or none, gets through its quota check, its
\* downstream call and the gate's bookkeeping to a response, and the
\* response is delivered
C29_HungRequestBlocksOnlyItself ==
    /\ [](\A r \in Reqs :
             req[r].pc \in {"call_next", "bypass", "failopen"} => running # r)
    /\ \A r \in OtherSlots :
          /\ (req[HungSlot].pc = "call_next" /\ req[r].pc # "idle")
                ~> (req[HungSlot].pc = "call_next" /\ req[r].pc = "done")
          /\ (req[HungSlot].pc = "call_next" /\ req[r].pc = "done")
                ~> (req[HungSlot].pc = "call_next" /\ req[r].pc = "idle")

C29_Witness ==
    \E r \in OtherSlots :
        /\ req[HungSlot].pc = "call_next"
        /\ req[HungSlot].device_token = "deviceAA"
        /\ req[r].pc = "done"
        /\ req[r].device_token = "deviceAA"
        /\ req[r].status = 200
        /\ req[r].remaining_hdr = free_tier_limit - 1
        /\ quotas["deviceAA"].count = 1

-----------------------------------------------------------------------------
(* Properties of the store's lock, checked under SpecLock and SpecLockFair *)

\* C30: whenever the store's lock is held, its holder is the task that has
\* the event loop: no task is suspended between acquiring and releasing
\* it, none ever waits for it, and so every body under the lock runs with
\* no step of another task in between
C30_NoSuspensionUnderLock ==
    /\ lock.locked => (lock.owner \in Tasks /\ lock.loop = lock.owner)
    /\ \A t \in Tasks : lock.pc[t] \notin {"suspended", "wait_lock"}
    /\ \A t \in Tasks :
          lock.pc[t] \in {"body", "release"} =>
              (lock.locked /\ lock.owner = t)

C30_Witness ==
    /\ lock.locked
    /\ lock.owner = "caller"
    /\ lock.op = "increment_usage"
    /\ lock.pc["caller"] = "release"
    /\ lock.pc["cleanup"] = "sleep"
    /\ lock.device \in DOMAIN quotas
    /\ quotas[lock.device].count = 2

\* C23: once shutdown() has cancelled the reclamation task, the task
\* finishes and shutdown returns, wherever the task was suspended when the
\* cancellation reached it; a finished task does not hold the lock; every
\* entry is whole (a count and a reset_at that is a midnight); and a
\* get_usage or increment_usage call made or in progress afterwards
\* completes
C23_StoppableOnShutdown ==
    /\ [](lock.pc["cleanup"] = "done" => lock.owner # "cleanup")
    /\ [](\A d \in DOMAIN quotas :
             /\ quotas[d].count \in 0..MaxCount
             /\ quotas[d].reset_time % DayLen = 0
             /\ quotas[d].reset_time > 0)
    /\ (lock.shutdown = "awaiting") ~>
          (lock.pc["cleanup"] = "done" /\ lock.shutdown = "returned")
    /\ ( /\ lock.pc["cleanup"] = "done"
         /\ lock.pc["caller"] # "idle"
         /\ lock.op \in {"get_usage", "increment_usage"} )
       ~> (lock.pc["caller"] = "idle" /\ ~lock.locked)

C23_Witness ==
    /\ lock.shutdown = "returned"
    /\ lock.pc["cleanup"] = "done"
    /\ cleanup_task = "cancelled"
    /\ ~lock.locked
    /\ lock.pc["caller"] = "idle"
    /\ lock.op = "increment_usage"
    /\ \E d \in DOMAIN quotas : quotas[d].count = MaxCount

-----------------------------------------------------------------------------
(* Properties of the blocklist mutators, checked under SpecBlocklist *)

\* the step is a call of the blocklist mutator op on instance i with term
BlocklistCalled(op, i, term) ==
    /\ blocklist' # blocklist
    /\ blocklist'.op = op
    /\ blocklist'.inst = i
    /\ blocklist'.term = term

\* term is in the list in some letter case
PresentAnyCase(term, terms) ==
    \E k \in 1..Len(terms) : lower(terms[k]) = lower(term)

\* C39: add_blocked_term and remove_blocked_term called on one instance
\* leave the blocklist every other instance reads, and so the result of its
\* blocklist check, as it was
C39_BlocklistMutationsAreLocal ==
    [][\A i \in Instances, term \in Terms :
          (BlocklistCalled("add", i, term) \/ BlocklistCalled("remove", i, term))
          => \A j \in Instances \ {i} :
                BlockedTermsOf(blocklist', j) = BlockedTermsOf(blocklist, j)
      ]_vars

\* C21: add_blocked_term(t) leaves the instance's blocklist as it is when
\* t is in it in any letter case and otherwise appends exactly one entry,
\* the lower-cased t; remove_blocked_term(t) leaves the content as it is
\* when t is not in it; and remove_blocked_term(t) right after an
\* add_blocked_term(t) of an absent t gives back the content from before
\* the add
C21_BlocklistAddRemove ==
    [][\A i \in Instances, term \in Terms :
          LET b == BlockedTermsOf(blocklist, i)
              a == BlockedTermsOf(blocklist', i)
          IN  /\ BlocklistCalled("add", i, term) =>
                    IF PresentAnyCase(term, b)
                    THEN a = b
                    ELSE /\ Len(a) = Len(b) + 1
                         /\ SubSeq(a, 1, Len(b)) = b
                         /\ a[Len(a)] = lower(term)
                         /\ PresentAnyCase(term, a)
              /\ BlocklistCalled("remove", i, term) =>
                    /\ ~PresentAnyCase(term, a)
                    /\ ~PresentAnyCase(term, b) => a = b
                    /\ ( /\ blocklist.op = "add"
                         /\ blocklist.inst = i
                         /\ blocklist.term = term
                         /\ ~PresentAnyCase(term, blocklist.before) )
                       => a = blocklist.before
      ]_vars

C21_Witness ==
    \E i \in Instances :
        /\ blocklist.op = "add"
        /\ blocklist.inst = i
        /\ blocklist.term = "Harm"
        /\ blocklist.own[i]
        /\ blocklist.before = BlockedTermsOf(blocklist, i)
        /\ Len(blocklist.terms[i]) = Len(BLOCKED_TERMS) + 1
        /\ Member("newbadword", blocklist.terms[i])

====
